---- MODULE Spec2Model ----
(***************************************************************************)
(* Verification model of the document reconstruction engine                *)
(* (formatting): the draft-to-template mapper, the block classifier, the   *)
(* style resolver, the text normalizer, the renderer, the validator, the   *)
(* entry points of the backend, the formatting rulebook, the parser of     *)
(* inline markers and the draft-driven parser.                             *)
(*                                                                         *)
(* Python lists are modelled as TLA+ sequences (1-based); every index that *)
(* the program stores in its data (slot_index, draft_index) keeps the      *)
(* program's 0-based value.  A text is a sequence of one-character         *)
(* strings.                                                                *)
(***************************************************************************)
EXTENDS Integers, Sequences, FiniteSets, TLC

VARIABLES
    pc,              \* which component runs and where it stands
    draft_blocks,    \* map_draft_to_template: argument draft_blocks
    template_slots,  \* map_draft_to_template: argument template_slots
    slot_idx,        \* map_draft_to_template: number of slots already processed
    consumed,        \* map_draft_to_template: local list consumed
    mapped,          \* map_draft_to_template: local list mapped
    report,          \* map_draft_to_template: local list report
    text,            \* classify_paragraph: argument text
    role,            \* classify_paragraph: the role returned
    ontology_type,   \* resolve_block_style: argument ontology_type
    style_map,       \* resolve_block_style: argument style_map
    style,           \* resolve_block_style: the style returned
    norm_text,       \* normalize_text_for_slot: argument text
    norm_slot,       \* normalize_text_for_slot: argument slot
    rules_by_type,   \* normalize_text_for_slot: argument rules_by_type
    normalized,      \* normalize_text_for_slot: the text returned
    renormalized,    \* normalize_text_for_slot: the text returned for the returned text
    template_structure, \* inject_blocks, validate_against_sample: the sample's slots
    blocks,          \* inject_blocks: argument blocks
    use_table,       \* inject_blocks: caption_table_layout.get("use_table")
    doc,             \* the paragraphs of the document being written or validated
    block_idx,       \* inject_blocks: number of blocks already processed
    seen,            \* inject_blocks: local set seen / seen_long_text
    validation,      \* validate_against_sample: the report returned
    calls,           \* backend: the invocations of entry points that are under way
    files,           \* backend: the files of the output directory and the temporary files
    rulebook_input,  \* build_formatting_rulebook: argument template_structure
    rulebook,        \* build_formatting_rulebook: the rulebook returned
    marked_text,     \* parse_inline_formatting_markers: argument text
    segments,        \* parse_inline_formatting_markers: the segments returned
    draft_text,      \* parse_draft_into_blocks: argument draft_text
    draft_parsed,    \* parse_draft_into_blocks: the blocks returned
    numbered_block,  \* inject_blocks: one (block_type, text) of blocks_to_render
    numbered_num_id, \* inject_blocks: argument numbered_num_id
    numbered_doc,    \* inject_blocks: the paragraphs added for the block
    render_request,  \* the entry point of the backend, the number of blocks to render and of template paragraphs
    render_mode      \* the renderer that the entry point called

mapperVars == <<draft_blocks, template_slots, slot_idx, consumed, mapped, report>>
classifierVars == <<text, role>>
resolverVars == <<ontology_type, style_map, style>>
normalizerVars == <<norm_text, norm_slot, rules_by_type, normalized, renormalized>>
rendererVars == <<template_structure, blocks, use_table, doc, block_idx, seen, validation>>
backendVars == <<calls, files>>
rulebookVars == <<rulebook_input, rulebook>>
markerVars == <<marked_text, segments>>
draftParserVars == <<draft_text, draft_parsed>>
numberedVars == <<numbered_block, numbered_num_id, numbered_doc>>
modeVars == <<render_request, render_mode>>
vars == <<pc, mapperVars, classifierVars, resolverVars, normalizerVars, rendererVars, backendVars,
          rulebookVars, markerVars, draftParserVars, numberedVars, modeVars>>

\* The variables of the components that a specification does not run
Idle == "-"
IdleMapper ==
    /\ draft_blocks = Idle /\ template_slots = Idle /\ slot_idx = Idle
    /\ consumed = Idle /\ mapped = Idle /\ report = Idle
IdleClassifier == text = Idle /\ role = Idle
IdleResolver == ontology_type = Idle /\ style_map = Idle /\ style = Idle
IdleNormalizer ==
    /\ norm_text = Idle /\ norm_slot = Idle /\ rules_by_type = Idle
    /\ normalized = Idle /\ renormalized = Idle
IdleRenderer ==
    /\ template_structure = Idle /\ blocks = Idle /\ use_table = Idle /\ doc = Idle
    /\ block_idx = Idle /\ seen = Idle /\ validation = Idle
IdleBackend == calls = Idle /\ files = Idle
IdleRulebook == rulebook_input = Idle /\ rulebook = Idle
IdleMarkers == marked_text = Idle /\ segments = Idle
IdleDraftParser == draft_text = Idle /\ draft_parsed = Idle
IdleNumbered == numbered_block = Idle /\ numbered_num_id = Idle /\ numbered_doc = Idle
IdleMode == render_request = Idle /\ render_mode = Idle

\* For each component, the variables of all the others and their idle state
restOfMapper == <<classifierVars, resolverVars, normalizerVars, rendererVars, backendVars, rulebookVars, markerVars, draftParserVars, numberedVars, modeVars>>
restOfClassifier == <<mapperVars, resolverVars, normalizerVars, rendererVars, backendVars, rulebookVars, markerVars, draftParserVars, numberedVars, modeVars>>
restOfResolver == <<mapperVars, classifierVars, normalizerVars, rendererVars, backendVars, rulebookVars, markerVars, draftParserVars, numberedVars, modeVars>>
restOfNormalizer == <<mapperVars, classifierVars, resolverVars, rendererVars, backendVars, rulebookVars, markerVars, draftParserVars, numberedVars, modeVars>>
restOfRenderer == <<mapperVars, classifierVars, resolverVars, normalizerVars, backendVars, rulebookVars, markerVars, draftParserVars, numberedVars, modeVars>>
restOfBackend == <<mapperVars, classifierVars, resolverVars, normalizerVars, rendererVars, rulebookVars, markerVars, draftParserVars, numberedVars, modeVars>>
OnlyMapper == IdleClassifier /\ IdleResolver /\ IdleNormalizer /\ IdleRenderer /\ IdleBackend /\ IdleRulebook /\ IdleMarkers /\ IdleDraftParser /\ IdleNumbered /\ IdleMode
OnlyClassifier == IdleMapper /\ IdleResolver /\ IdleNormalizer /\ IdleRenderer /\ IdleBackend /\ IdleRulebook /\ IdleMarkers /\ IdleDraftParser /\ IdleNumbered /\ IdleMode
OnlyResolver == IdleMapper /\ IdleClassifier /\ IdleNormalizer /\ IdleRenderer /\ IdleBackend /\ IdleRulebook /\ IdleMarkers /\ IdleDraftParser /\ IdleNumbered /\ IdleMode
OnlyNormalizer == IdleMapper /\ IdleClassifier /\ IdleResolver /\ IdleRenderer /\ IdleBackend /\ IdleRulebook /\ IdleMarkers /\ IdleDraftParser /\ IdleNumbered /\ IdleMode
OnlyRenderer == IdleMapper /\ IdleClassifier /\ IdleResolver /\ IdleNormalizer /\ IdleBackend /\ IdleRulebook /\ IdleMarkers /\ IdleDraftParser /\ IdleNumbered /\ IdleMode
OnlyBackend == IdleMapper /\ IdleClassifier /\ IdleResolver /\ IdleNormalizer /\ IdleRenderer /\ IdleRulebook /\ IdleMarkers /\ IdleDraftParser /\ IdleNumbered /\ IdleMode
restOfRulebook == <<mapperVars, classifierVars, resolverVars, normalizerVars, rendererVars, backendVars, markerVars, draftParserVars, numberedVars, modeVars>>
restOfMarkers == <<mapperVars, classifierVars, resolverVars, normalizerVars, rendererVars, backendVars, rulebookVars, draftParserVars, numberedVars, modeVars>>
restOfDraftParser == <<mapperVars, classifierVars, resolverVars, normalizerVars, rendererVars, backendVars, rulebookVars, markerVars, numberedVars, modeVars>>
restOfNumbered == <<mapperVars, classifierVars, resolverVars, normalizerVars, rendererVars, backendVars, rulebookVars, markerVars, draftParserVars, modeVars>>
restOfMode == <<mapperVars, classifierVars, resolverVars, normalizerVars, rendererVars, backendVars, rulebookVars, markerVars, draftParserVars, numberedVars>>
OnlyRulebook == IdleMapper /\ IdleClassifier /\ IdleResolver /\ IdleNormalizer /\ IdleRenderer /\ IdleBackend /\ IdleMarkers /\ IdleDraftParser /\ IdleNumbered /\ IdleMode
OnlyMarkers == IdleMapper /\ IdleClassifier /\ IdleResolver /\ IdleNormalizer /\ IdleRenderer /\ IdleBackend /\ IdleRulebook /\ IdleDraftParser /\ IdleNumbered /\ IdleMode
OnlyDraftParser == IdleMapper /\ IdleClassifier /\ IdleResolver /\ IdleNormalizer /\ IdleRenderer /\ IdleBackend /\ IdleRulebook /\ IdleMarkers /\ IdleNumbered /\ IdleMode
OnlyNumbered == IdleMapper /\ IdleClassifier /\ IdleResolver /\ IdleNormalizer /\ IdleRenderer /\ IdleBackend /\ IdleRulebook /\ IdleMarkers /\ IdleDraftParser /\ IdleMode
OnlyMode == IdleMapper /\ IdleClassifier /\ IdleResolver /\ IdleNormalizer /\ IdleRenderer /\ IdleBackend /\ IdleRulebook /\ IdleMarkers /\ IdleDraftParser /\ IdleNumbered

----------------------------------------------------------------------------
(* Bounds of the model *)

MaxSlots == 2
MaxBlocks == 2
MaxTextLen == 4

----------------------------------------------------------------------------
(* Generic helpers *)

SeqsUpTo(S, n) == UNION { [1..k -> S] : k \in 0..n }

\* Python's None where the program stores it in place of an index
None == -1

----------------------------------------------------------------------------
(* Draft-to-template mapper: structural_pipeline.map_draft_to_template *)

SectionTypes == {"body", "caption", "separator"}
BlockKinds == {"paragraph", "line", "signature_line", "section_underline"}
StyleNames == {"Normal", "Title"}
\* The text of the j-th draft paragraph.  The mapper never reads a text; the
\* paragraphs are pairwise distinct so that a mapped entry tells which block
\* it was taken from.
DraftTexts == <<"A", "B", "C", "D", "E">>

\* Slots as build_formatting_rulebook lays them out (every key present).  The
\* style of a slot is read only for a paragraph slot, so the structural kinds
\* are enumerated with one style.
TemplateSlot ==
    { s \in [section_type : SectionTypes, block_kind : BlockKinds, style : StyleNames] :
        s.block_kind # "paragraph" => s.style = "Normal" }

\* Blocks as parse_draft_structurally builds them from (block_type, text)
\* pairs.  The mapper never reads a block_type either; each section type is
\* enumerated with one block type ("line" blocks are typed separator).
DraftBlockType(section_type) ==
    CASE section_type = "separator" -> "line"
      [] section_type = "caption" -> "Title"
      [] OTHER -> "Normal"

Drafts ==
    { [j \in DOMAIN st |-> [block_type |-> DraftBlockType(st[j]),
                            text |-> DraftTexts[j],
                            section_type |-> st[j]]] :
        st \in SeqsUpTo(SectionTypes, MaxBlocks) }

\* The inner loops "for d_idx, d in enumerate(draft_blocks)": the first
\* 0-based index of an unconsumed block satisfying the test, or None.
\* Mutant: the typed search returns the last unconsumed block of the type
\* instead of the first.
FirstUnconsumedOfType_Last(draft, cons, template_type) ==
    LET hits == { j \in DOMAIN draft : ~cons[j] /\ draft[j].section_type = template_type }
    IN IF hits = {} THEN None
       ELSE (CHOOSE j \in hits : \A k \in hits : j >= k) - 1

FirstUnconsumedOfType(draft, cons, template_type) ==
    LET hits == { j \in DOMAIN draft : ~cons[j] /\ draft[j].section_type = template_type }
    IN IF hits = {} THEN None
       ELSE (CHOOSE j \in hits : \A k \in hits : j <= k) - 1

\* Mutant: the search forgets to skip the consumed blocks.
FirstUnconsumed_IgnoringConsumed(draft, cons) ==
    IF DOMAIN draft = {} THEN None ELSE 0

FirstUnconsumed(draft, cons) ==
    LET hits == { j \in DOMAIN draft : ~cons[j] }
    IN IF hits = {} THEN None
       ELSE (CHOOSE j \in hits : \A k \in hits : j <= k) - 1

\* Mutant: the last search (any remaining block for a slot that is not a body
\* slot) is missing.
Chosen_NoLastResort(draft, cons, template_type) ==
    LET c1 == FirstUnconsumedOfType(draft, cons, template_type)
    IN IF c1 = None /\ template_type = "body" THEN FirstUnconsumed(draft, cons) ELSE c1

\* The value of "chosen" after the three searches of one iteration.
Chosen(draft, cons, template_type) ==
    LET c1 == FirstUnconsumedOfType(draft, cons, template_type)
        c2 == IF c1 = None /\ template_type = "body"
              THEN FirstUnconsumed(draft, cons) ELSE c1
        c3 == IF c2 = None THEN FirstUnconsumed(draft, cons) ELSE c2
    IN c3

\* Mutant: every chosen block is reported as an exact match.
ChosenRecord_AlwaysOk(idx, template_type, chosen, d) ==
    [slot_index |-> idx,
     template_type |-> template_type,
     draft_index |-> chosen,
     match_status |-> "ok"]

\* The record appended to report when a block was chosen.
ChosenRecord(idx, template_type, chosen, d) ==
    [slot_index |-> idx,
     template_type |-> template_type,
     draft_index |-> chosen,
     match_status |-> IF d.section_type = template_type THEN "ok" ELSE "mapped"]

\* The (bt, text) pair appended to mapped when a block was chosen.
ChosenEntry(d, block_kind) ==
    IF block_kind = "signature_line" THEN <<"signature_line", d.text>>
    ELSE IF block_kind = "line" THEN <<"line", d.text>>
    ELSE IF block_kind = "section_underline" THEN <<"section_underline", "">>
    ELSE <<d.block_type, d.text>>

\* The record appended to report when no unconsumed block is left.
EmptyRecord(idx, template_type) ==
    [slot_index |-> idx,
     template_type |-> template_type,
     draft_index |-> None,
     match_status |-> "empty"]

\* Mutant: an empty paragraph slot is typed by its block kind instead of its
\* style name.
EmptyEntry_KindForParagraph(slot) == <<slot.block_kind, "">>

\* The (bt, text) pair appended to mapped when no unconsumed block is left.
EmptyEntry(slot) ==
    IF slot.block_kind = "section_underline" THEN <<"section_underline", "">>
    ELSE IF slot.block_kind = "line" THEN <<"line", "">>
    ELSE IF slot.block_kind = "signature_line" THEN <<"signature_line", "">>
    ELSE <<slot.style, "">>

\* Scenario C of the specification: slots typed court_header, caption_party,
\* body, numbered, signature_line (of any block kind) and a draft typed
\* body, numbered, body.
ScenarioSlotTypes == <<"court_header", "caption_party", "body", "numbered", "signature_line">>
ScenarioDraftTypes == <<"body", "numbered", "body">>

ScenarioTemplates ==
    { [i \in 1..5 |-> [section_type |-> ScenarioSlotTypes[i], block_kind |-> k[i], style |-> "Normal"]] :
        k \in [1..5 -> BlockKinds] }

ScenarioDraft ==
    [j \in 1..3 |-> [block_type |-> DraftBlockType(ScenarioDraftTypes[j]),
                     text |-> DraftTexts[j],
                     section_type |-> ScenarioDraftTypes[j]]]

MapperInputs ==
    { <<d, t>> : d \in Drafts, t \in SeqsUpTo(TemplateSlot, MaxSlots) }
    \cup { <<ScenarioDraft, t>> : t \in ScenarioTemplates }

\* Entry of map_draft_to_template: report = [], consumed = [False] * len, mapped = [].
InitMapper ==
    /\ \E in \in MapperInputs :
          /\ draft_blocks = in[1]
          /\ template_slots = in[2]
          /\ consumed = [j \in DOMAIN in[1] |-> FALSE]
    /\ slot_idx = 0
    /\ mapped = <<>>
    /\ report = <<>>
    /\ pc = "map"
    /\ OnlyMapper

\* Mutant: a slot for which no block is left is skipped instead of emitted
\* empty.
MapSlot_SkippingEmpty ==
    /\ pc = "map"
    /\ slot_idx < Len(template_slots)
    /\ LET slot == template_slots[slot_idx + 1]
           chosen == Chosen(draft_blocks, consumed, slot.section_type)
       IN IF chosen # None
          THEN LET d == draft_blocks[chosen + 1] IN
               /\ consumed' = [consumed EXCEPT ![chosen + 1] = TRUE]
               /\ report' = Append(report, ChosenRecord(slot_idx, slot.section_type, chosen, d))
               /\ mapped' = Append(mapped, ChosenEntry(d, slot.block_kind))
          ELSE UNCHANGED <<consumed, report, mapped>>
    /\ slot_idx' = slot_idx + 1
    /\ UNCHANGED <<pc, draft_blocks, template_slots, restOfMapper>>

\* One iteration of "for slot_idx, slot in enumerate(template_slots)".
MapSlot ==
    /\ pc = "map"
    /\ slot_idx < Len(template_slots)
    /\ LET slot == template_slots[slot_idx + 1]
           template_type == slot.section_type
           block_kind == slot.block_kind
           chosen == Chosen(draft_blocks, consumed, template_type)
       IN IF chosen # None
          THEN LET d == draft_blocks[chosen + 1] IN
               /\ consumed' = [consumed EXCEPT ![chosen + 1] = TRUE]
               /\ report' = Append(report, ChosenRecord(slot_idx, template_type, chosen, d))
               /\ mapped' = Append(mapped, ChosenEntry(d, block_kind))
          ELSE /\ consumed' = consumed
               /\ report' = Append(report, EmptyRecord(slot_idx, template_type))
               /\ mapped' = Append(mapped, EmptyEntry(slot))
    /\ slot_idx' = slot_idx + 1
    /\ UNCHANGED <<pc, draft_blocks, template_slots, restOfMapper>>

\* "return mapped, report" once the loop is exhausted.
MapReturn ==
    /\ pc = "map"
    /\ slot_idx = Len(template_slots)
    /\ pc' = "mapped"
    /\ UNCHANGED <<mapperVars, restOfMapper>>

NextMapper == MapSlot \/ MapReturn

Spec == InitMapper /\ [][NextMapper]_vars

----------------------------------------------------------------------------
(* Properties of the mapper *)

NumSlots == Len(template_slots)
NumBlocks == Len(draft_blocks)
Returned == pc = "mapped"

\* The 1-based positions of the records that consumed the 0-based block j.
RecordsOf(j) == { i \in DOMAIN report : report[i].draft_index = j }

\* C1: map_draft_to_template returns, for N slots and any M >= 0 blocks, a
\* mapped list of length N and a report of length N whose i-th record has
\* slot_index i.
C1_SlotCount ==
    Returned =>
        /\ Len(mapped) = NumSlots
        /\ Len(report) = NumSlots
        /\ \A i \in DOMAIN report : report[i].slot_index = i - 1

C1_Witness ==
    /\ Returned
    /\ NumSlots = 2
    /\ NumBlocks = 1
    /\ Len(mapped) = 2

\* C2: no draft block index is the draft_index of more than one record, and the
\* blocks marked consumed are exactly the blocks some record names, so a
\* consumed block is never handed to a later slot.
C2_NoReuse ==
    /\ \A j \in 0..(NumBlocks - 1) : Cardinality(RecordsOf(j)) <= 1
    /\ \A j \in 0..(NumBlocks - 1) : consumed[j + 1] <=> RecordsOf(j) # {}

C2_Witness ==
    /\ Returned
    /\ NumSlots = 2
    /\ NumBlocks = 2
    /\ draft_blocks[1].section_type = draft_blocks[2].section_type
    /\ report[1].draft_index = 0
    /\ report[2].draft_index = 1

\* C3: when M <= N no draft content is dropped: the text of every draft block
\* is the text of the mapped entry of the slot that consumed it.
C3_NoContentDropped ==
    (Returned /\ NumBlocks <= NumSlots) =>
        \A j \in 0..(NumBlocks - 1) :
            \E i \in RecordsOf(j) : mapped[i][2] = draft_blocks[j + 1].text

\* The call has not failed: while slots remain the loop body can run, and once
\* they are exhausted the function returns.
NeverRaises == pc = "map" => ENABLED NextMapper

\* C4: when M > N the call never fails, every slot consumes a block (no record
\* is empty), exactly M - N blocks stay unconsumed, none of them is named by a
\* record, and every mapped entry carries the text of the block its record
\* names or no text.
C4_Surplus ==
    /\ NumBlocks > NumSlots => NeverRaises
    /\ (Returned /\ NumBlocks > NumSlots) =>
        /\ \A i \in DOMAIN report :
              /\ report[i].match_status # "empty"
              /\ report[i].draft_index \in 0..(NumBlocks - 1)
              /\ consumed[report[i].draft_index + 1]
        /\ Cardinality({ j \in 0..(NumBlocks - 1) : ~consumed[j + 1] }) = NumBlocks - NumSlots
        /\ \A j \in 0..(NumBlocks - 1) :
              ~consumed[j + 1] =>
                  /\ RecordsOf(j) = {}
                  /\ \A i \in DOMAIN mapped : mapped[i][2] # draft_blocks[j + 1].text

C4_Witness ==
    /\ Returned
    /\ NumBlocks = 2
    /\ NumSlots = 1
    /\ report[1].draft_index = 1
    /\ ~consumed[1]

\* The entry an empty slot must get: its structural kind, or the style name of
\* a paragraph slot, with empty text.
ExpectedEmptyEntry(slot) ==
    <<IF slot.block_kind \in {"line", "signature_line", "section_underline"}
      THEN slot.block_kind ELSE slot.style, "">>

\* C5: when M < N the first M slots each consume a block and each of the last
\* N - M slots gets a record with draft_index null and match_status empty and
\* a mapped entry with empty text typed by the slot's structural kind or, for
\* a paragraph slot, its style name; once a slot is empty all later ones are;
\* the call never fails.
C5_Shortfall ==
    /\ NumBlocks < NumSlots => NeverRaises
    /\ (Returned /\ NumBlocks < NumSlots) =>
          /\ \A i \in 1..NumBlocks :
                /\ report[i].draft_index # None
                /\ report[i].match_status # "empty"
          /\ \A i \in (NumBlocks + 1)..NumSlots :
                /\ report[i].draft_index = None
                /\ report[i].match_status = "empty"
                /\ mapped[i] = ExpectedEmptyEntry(template_slots[i])
    /\ \A i, k \in DOMAIN report :
          (i < k /\ report[i].match_status = "empty") => report[k].match_status = "empty"

C5_Witness ==
    /\ Returned
    /\ NumSlots = 2
    /\ NumBlocks = 0
    /\ template_slots[1].block_kind = "paragraph"
    /\ template_slots[1].style = "Title"
    /\ template_slots[2].block_kind = "section_underline"
    /\ mapped = << <<"Title", "">>, <<"section_underline", "">> >>

IsScenarioC ==
    /\ [i \in DOMAIN template_slots |-> template_slots[i].section_type] = ScenarioSlotTypes
    /\ [j \in DOMAIN draft_blocks |-> draft_blocks[j].section_type] = ScenarioDraftTypes

\* C6: in scenario C block 0 goes to slot 0 (mapped), block 1 to slot 1
\* (mapped), block 2 to slot 2 (ok), and slots 3 and 4 are reported empty.
C6_ScenarioC ==
    (Returned /\ IsScenarioC) =>
        /\ [i \in DOMAIN report |-> report[i].draft_index] = <<0, 1, 2, None, None>>
        /\ [i \in DOMAIN report |-> report[i].match_status]
             = <<"mapped", "mapped", "ok", "empty", "empty">>

C6_Witness ==
    /\ Returned
    /\ IsScenarioC
    /\ Len(report) = 5
    /\ report[3].match_status = "ok"

\* The assignment the rule of the specification gives slot i (1-based), as a
\* 0-based block index or None: the blocks taken by the earlier slots are
\* gone; of the rest the first of the slot's type, else the first of any type.
RECURSIVE RuleAssignment(_)
RuleAssignment(i) ==
    LET taken == { RuleAssignment(k) : k \in 1..(i - 1) }
        free == { j \in 0..(NumBlocks - 1) : j \notin taken }
        typed == { j \in free : draft_blocks[j + 1].section_type = template_slots[i].section_type }
    IN IF typed # {} THEN CHOOSE j \in typed : \A k \in typed : j <= k
       ELSE IF free # {} THEN CHOOSE j \in free : \A k \in free : j <= k
       ELSE None

\* C17: at every point of the loop the record of each slot already processed
\* names the block the rule assigns from the inputs alone (so a later slot
\* never revises it): the first unconsumed block of the slot's type with
\* status ok, else the first unconsumed block of any type with status mapped;
\* and a record is ok exactly when its block has the slot's type.
C17_FirstFit ==
    \A i \in DOMAIN report :
        LET r == report[i]
            slot_type == template_slots[i].section_type
        IN /\ r.draft_index = RuleAssignment(i)
           /\ r.draft_index # None =>
                 /\ r.match_status \in {"ok", "mapped"}
                 /\ r.match_status = "ok"
                       <=> draft_blocks[r.draft_index + 1].section_type = slot_type
                 /\ mapped[i][2] \in {draft_blocks[r.draft_index + 1].text, ""}

C17_Witness ==
    /\ Returned
    /\ NumSlots = 2
    /\ NumBlocks = 2
    /\ report[1].draft_index = 1
    /\ report[1].match_status = "ok"
    /\ report[2].draft_index = 0
    /\ report[2].match_status = "mapped"

----------------------------------------------------------------------------
(* Texts: a Python str is a sequence of one-character strings *)

Upper == {"A", "B", "C", "D", "E", "F", "G", "H", "I", "J", "K", "L", "M",
          "N", "O", "P", "Q", "R", "S", "T", "U", "V", "W", "X", "Y", "Z"}
Lower == {"a", "b", "c", "d", "e", "f", "g", "h", "i", "j", "k", "l", "m",
          "n", "o", "p", "q", "r", "s", "t", "u", "v", "w", "x", "y", "z"}
Digit == {"0", "1", "2", "3", "4", "5", "6", "7", "8", "9"}
UpperSeq == <<"A", "B", "C", "D", "E", "F", "G", "H", "I", "J", "K", "L", "M", "N", "O", "P", "Q", "R", "S", "T", "U", "V", "W", "X", "Y", "Z">>
LowerSeq == <<"a", "b", "c", "d", "e", "f", "g", "h", "i", "j", "k", "l", "m", "n", "o", "p", "q", "r", "s", "t", "u", "v", "w", "x", "y", "z">>

\* U+00A0 (no-break space) and U+2022 (bullet), each one character
NBSP == "<U+00A0>"
BULLET == "<U+2022>"

\* The characters str.strip() removes and the regex class \s matches
WhiteSpace == {" ", "\t", "\n", "\r", "\f", NBSP}

\* The regex class \w
WordChar == Upper \cup Lower \cup Digit \cup {"_"}

ToUpper(c) == IF c \in Lower THEN UpperSeq[CHOOSE i \in 1..26 : LowerSeq[i] = c] ELSE c
ToLower(c) == IF c \in Upper THEN LowerSeq[CHOOSE i \in 1..26 : UpperSeq[i] = c] ELSE c

\* str.upper(), str.lower()
upper(t) == [i \in DOMAIN t |-> ToUpper(t[i])]
lower(t) == [i \in DOMAIN t |-> ToLower(t[i])]

\* str.isupper(): no lowercase letter and at least one uppercase letter
isupper(t) ==
    /\ \A i \in DOMAIN t : t[i] \notin Lower
    /\ \E i \in DOMAIN t : t[i] \in Upper

\* Mutant: the text is used as given, surrounding whitespace included.
strip_Nothing(t) == t

\* Mutant: one whitespace character at most is removed from each end.
strip_Once(t) ==
    LET a == IF t # <<>> /\ t[1] \in WhiteSpace THEN 2 ELSE 1
        b == IF Len(t) >= a /\ t[Len(t)] \in WhiteSpace THEN Len(t) - 1 ELSE Len(t)
    IN SubSeq(t, a, b)

\* str.strip()
strip(t) ==
    LET vis == { i \in DOMAIN t : t[i] \notin WhiteSpace }
    IN IF vis = {} THEN <<>>
       ELSE SubSeq(t, CHOOSE i \in vis : \A k \in vis : i <= k,
                      CHOOSE i \in vis : \A k \in vis : i >= k)

\* w in t, t.startswith(w), t.endswith(w), t.count(c), len(t.split())
Contains(t, w) ==
    \E i \in 0..(Len(t) - Len(w)) : SubSeq(t, i + 1, i + Len(w)) = w
startswith(t, w) == Len(w) <= Len(t) /\ SubSeq(t, 1, Len(w)) = w
endswith(t, w) == Len(w) <= Len(t) /\ SubSeq(t, Len(t) - Len(w) + 1, Len(t)) = w
count(t, c) == Cardinality({ i \in DOMAIN t : t[i] = c })
WordCount(t) ==
    Cardinality({ i \in DOMAIN t :
        t[i] \notin WhiteSpace /\ (i = 1 \/ t[i - 1] \in WhiteSpace) })
ContainsAny(t, words) == \E w \in words : Contains(t, w)

----------------------------------------------------------------------------
(* Regular expressions of the re module, as far as the program uses them.  *)
(* A pattern is a tree; Ends gives the positions (0..len) at which a match  *)
(* that started at a position of P can end, so that a match exists exactly  *)
(* when the backtracking matcher finds one.                                 *)

Ch(S) == [op |-> "set", set |-> S]
Lit(w) == [op |-> "lit", word |-> w]
Cat(rs) == [op |-> "cat", parts |-> rs]
Alt(rs) == [op |-> "alt", parts |-> rs]
Rep(r, lo, hi) == [op |-> "rep", sub |-> r, lo |-> lo, hi |-> hi]
Plus(r) == Rep(r, 1, -1)
Star(r) == Rep(r, 0, -1)
Opt(r) == Rep(r, 0, 1)
EndAnchor == [op |-> "end"]
WordBoundary == [op |-> "wordb"]
Words(words) == Alt([i \in DOMAIN words |-> Lit(words[i])])
wspace == Ch(WhiteSpace)
digit == Ch(Digit)

\* c matches a character class, under re.I in either case
InClass(c, S, ci) == c \in S \/ (ci /\ (ToUpper(c) \in S \/ ToLower(c) \in S))
Fold(t, ci) == IF ci THEN lower(t) ELSE t

RECURSIVE Ends(_, _, _, _)
RECURSIVE CatEnds(_, _, _, _, _)
RECURSIVE RepEnds(_, _, _, _, _)

Ends(re, t, P, ci) ==
    CASE re.op = "set" ->
           { p + 1 : p \in { q \in P : q < Len(t) /\ InClass(t[q + 1], re.set, ci) } }
      [] re.op = "lit" ->
           { p + Len(re.word) : p \in { q \in P :
               /\ q + Len(re.word) <= Len(t)
               /\ Fold(SubSeq(t, q + 1, q + Len(re.word)), ci) = Fold(re.word, ci) } }
      [] re.op = "cat" -> CatEnds(re.parts, 1, t, P, ci)
      [] re.op = "alt" -> UNION { Ends(re.parts[i], t, P, ci) : i \in DOMAIN re.parts }
      [] re.op = "rep" -> RepEnds(re, 0, t, P, ci)
      [] re.op = "end" ->
           { p \in P : p = Len(t) \/ (p = Len(t) - 1 /\ t[Len(t)] = "\n") }
      [] re.op = "wordb" ->
           { p \in P : (p > 0 /\ t[p] \in WordChar) # (p < Len(t) /\ t[p + 1] \in WordChar) }

CatEnds(parts, k, t, P, ci) ==
    IF k > Len(parts) \/ P = {} THEN P
    ELSE CatEnds(parts, k + 1, t, Ends(parts[k], t, P, ci), ci)

\* P holds the positions reached after n repetitions
RepEnds(re, n, t, P, ci) ==
    IF P = {} THEN {}
    ELSE (IF n >= re.lo THEN P ELSE {})
         \cup (IF n = re.hi THEN {}
               ELSE RepEnds(re, n + 1, t, Ends(re.sub, t, P, ci), ci))

\* re.match(pattern, t) / re.match(pattern, t, re.I) / re.search(pattern, t, re.I)
match(re, t) == Ends(re, t, {0}, FALSE) # {}
matchI(re, t) == Ends(re, t, {0}, TRUE) # {}
searchI(re, t) == Ends(re, t, 0..Len(t), TRUE) # {}

\* re.sub(pattern, "", t) for a pattern anchored at the start whose
\* quantifiers are greedy: the longest match is removed
subPrefix(re, t) ==
    LET e == Ends(re, t, {0}, FALSE)
    IN IF e = {} THEN t
       ELSE SubSeq(t, (CHOOSE p \in e : \A q \in e : p >= q) + 1, Len(t))

----------------------------------------------------------------------------
(* Ontology block types: legal_block_ontology *)

Ontology ==
    [ COURT_HEADER |-> "court_header",
      COUNTY_LINE |-> "county_line",
      CAPTION_SEPARATOR |-> "caption_separator",
      CAPTION_PARTY |-> "caption_party",
      CAPTION_ROLE |-> "caption_role",
      VERSUS_LINE |-> "versus_line",
      DOC_TITLE |-> "doc_title",
      NOTICE_TO_LINE |-> "notice_to_line",
      SECTION_HEADING |-> "section_heading",
      SECTION_HEADING_MAJOR |-> "section_heading_major",
      CAUSE_OF_ACTION_HEADING |-> "cause_of_action_heading",
      CAUSE_OF_ACTION_TITLE |-> "cause_of_action_title",
      BODY_PARAGRAPH |-> "body_paragraph",
      LEGAL_ALLEGATION |-> "legal_allegation",
      NUMBERED_PARAGRAPH |-> "numbered_paragraph",
      WHEREFORE_CLAUSE |-> "wherefore_clause",
      WHEREFORE_HEADING |-> "wherefore_heading",
      SIGNATURE_LINE |-> "signature_line",
      SIGNATURE_BLOCK |-> "signature_block",
      FIRM_BLOCK_LINE |-> "firm_block_line",
      VERIFICATION_HEADING |-> "verification_heading",
      VERIFICATION_BODY |-> "verification_body",
      SUMMONS_BODY |-> "summons_body",
      LINE |-> "line",
      EMPTY |-> "empty" ]

\* Roles section_detector imports from legal_block_ontology, which does not
\* define them; they are given the names of the specification's role list.
DetectorRoles ==
    [ BULLET_ITEM |-> "bullet_item",
      DAMAGES_HEADING |-> "damages_heading",
      DATING_LINE |-> "dating_line",
      EMAIL_LINE |-> "email_line",
      JURAT_BLOCK |-> "jurat_block",
      LIST_INTRO |-> "list_intro",
      MATTER_OF_LINE |-> "matter_of_line",
      PHONE_FAX_LINE |-> "phone_fax_line" ]

----------------------------------------------------------------------------
(* Block classifier: section_detector *)

\* _is_separator_line with the underscore left out of its character set
is_separator_line_NoUnderscore(raw) ==
    LET t == strip(raw)
        u == IF endswith(t, <<"X">>) \/ endswith(t, <<"x">>)
             THEN strip(SubSeq(t, 1, Len(t) - 1)) ELSE t
    IN IF t = <<>> \/ Len(t) < 3 THEN FALSE
       ELSE \A i \in DOMAIN u : u[i] \in {" ", "\t", "-", ".", NBSP}

\* _is_separator_line
is_separator_line(raw) ==
    LET t == strip(raw)
        u == IF endswith(t, <<"X">>) \/ endswith(t, <<"x">>)
             THEN strip(SubSeq(t, 1, Len(t) - 1)) ELSE t
    IN IF t = <<>> \/ Len(t) < 3 THEN FALSE
       ELSE \A i \in DOMAIN u : u[i] \in {" ", "\t", "_", "-", ".", NBSP}

\* ^[A-Z0-9\s\-\.\,]{4,}$
AllCapsLineRe ==
    Cat(<<Rep(Ch(Upper \cup Digit \cup WhiteSpace \cup {"-", ".", ","}), 4, -1), EndAnchor>>)

IsCourtHeader(t) == match(AllCapsLineRe, t) /\ Contains(upper(t), <<"C", "O", "U", "R", "T">>)

IsCountyLine(t) ==
    /\ match(AllCapsLineRe, t)
    /\ ContainsAny(upper(t), {<<"C", "O", "U", "N", "T", "Y">>, <<"D", "I", "S", "T", "R", "I", "C", "T">>, <<"J", "U", "R", "I", "S", "D", "I", "C", "T", "I", "O", "N">>})

IsVersusLine(t) ==
    \/ matchI(Cat(<<Lit(<<"-", "a", "g", "a", "i", "n", "s", "t", "-">>), EndAnchor>>), t)
    \/ strip(t) = <<"-", "a", "g", "a", "i", "n", "s", "t", "-">>
    \/ (Len(t) < 20 /\ Contains(lower(t), <<"a", "g", "a", "i", "n", "s", "t">>) /\ count(t, "-") >= 2)

\* The WHEREFORE rule with the case-folding left out
IsWherefore_CaseSensitive(t) == startswith(strip(t), <<"W", "H", "E", "R", "E", "F", "O", "R", "E">>)

IsWherefore(t) == startswith(upper(strip(t)), <<"W", "H", "E", "R", "E", "F", "O", "R", "E">>)

\* ^(Respondent|Defendant|Plaintiff),?\s+its\s+(agents|employees)
IsPartyAllegation(t) ==
    matchI(Cat(<<Words(<<<<"R", "e", "s", "p", "o", "n", "d", "e", "n", "t">>, <<"D", "e", "f", "e", "n", "d", "a", "n", "t">>, <<"P", "l", "a", "i", "n", "t", "i", "f", "f">>>>), Opt(Lit(<<",">>)),
                 Plus(wspace), Lit(<<"i", "t", "s">>), Plus(wspace),
                 Words(<<<<"a", "g", "e", "n", "t", "s">>, <<"e", "m", "p", "l", "o", "y", "e", "e", "s">>>>)>>), t)

PartyWords == {<<"P", "l", "a", "i", "n", "t", "i", "f", "f">>, <<"D", "e", "f", "e", "n", "d", "a", "n", "t">>, <<"P", "e", "t", "i", "t", "i", "o", "n", "e", "r">>, <<"R", "e", "s", "p", "o", "n", "d", "e", "n", "t">>, <<"C", "l", "a", "i", "m", "a", "n", "t">>}

\* ^(Plaintiff|Defendant|Petitioner|Respondent|Claimant)\,?\.?$
CaptionRoleRe ==
    Cat(<<Words(<<<<"P", "l", "a", "i", "n", "t", "i", "f", "f">>, <<"D", "e", "f", "e", "n", "d", "a", "n", "t">>, <<"P", "e", "t", "i", "t", "i", "o", "n", "e", "r">>, <<"R", "e", "s", "p", "o", "n", "d", "e", "n", "t">>, <<"C", "l", "a", "i", "m", "a", "n", "t">>>>),
          Opt(Lit(<<",">>)), Opt(Lit(<<".">>)), EndAnchor>>)

\* \b(agents|servants|employees|negligent|careless|maintenance|inspection)\b
NegligenceWordRe ==
    Cat(<<WordBoundary,
          Words(<<<<"a", "g", "e", "n", "t", "s">>, <<"s", "e", "r", "v", "a", "n", "t", "s">>, <<"e", "m", "p", "l", "o", "y", "e", "e", "s">>, <<"n", "e", "g", "l", "i", "g", "e", "n", "t">>, <<"c", "a", "r", "e", "l", "e", "s", "s">>,
                  <<"m", "a", "i", "n", "t", "e", "n", "a", "n", "c", "e">>, <<"i", "n", "s", "p", "e", "c", "t", "i", "o", "n">>>>),
          WordBoundary>>)

\* The party-caption rule: the role it returns, or "" when it falls through.
PartyCaption(t) ==
    IF ContainsAny(t, PartyWords)
    THEN IF endswith(t, <<",">>) \/ endswith(t, <<".">>) \/ Len(t) < 60
         THEN (IF matchI(CaptionRoleRe, t) THEN Ontology.CAPTION_ROLE ELSE Ontology.CAPTION_PARTY)
         ELSE IF Len(t) < 80 /\ ~searchI(NegligenceWordRe, t) THEN Ontology.CAPTION_PARTY
         ELSE ""
    ELSE ""

IsDocTitle(t) ==
    /\ isupper(t) /\ WordCount(t) <= 12 /\ Len(t) < 80
    /\ \/ ContainsAny(t, {<<"S", "U", "M", "M", "O", "N", "S">>, <<"C", "O", "M", "P", "L", "A", "I", "N", "T">>, <<"N", "O", "T", "I", "C", "E", " ", "O", "F", " ", "C", "L", "A", "I", "M">>, <<"N", "O", "T", "I", "C", "E", " ", "O", "F">>,
                          <<"V", "E", "R", "I", "F", "I", "E", "D">>, <<"M", "O", "T", "I", "O", "N">>, <<"D", "E", "M", "A", "N", "D">>})
       \/ (~endswith(t, <<".">>) /\ ~endswith(t, <<":">>))

IsNoticeToLine(t) == startswith(upper(t), <<"T", "O", ":">>) \/ startswith(upper(t), <<"T", "O", " ", "T", "H", "E", " ">>)

\* ^In\s+the\s+Matter\s+of\s+the\s+Claim\s+of\s*:?\s*$  and  ^In\s+the\s+Matter\s+of\s+
IsMatterOfLine(t) ==
    LET head == <<Lit(<<"I", "n">>), Plus(wspace), Lit(<<"t", "h", "e">>), Plus(wspace), Lit(<<"M", "a", "t", "t", "e", "r">>),
                  Plus(wspace), Lit(<<"o", "f">>), Plus(wspace)>>
    IN \/ matchI(Cat(head \o <<Lit(<<"t", "h", "e">>), Plus(wspace), Lit(<<"C", "l", "a", "i", "m">>), Plus(wspace),
                               Lit(<<"o", "f">>), Star(wspace), Opt(Lit(<<":">>)), Star(wspace),
                               EndAnchor>>), t)
       \/ (matchI(Cat(head), t) /\ Len(t) < 60)

\* ^(STATE|COUNTY)\s+OF\s+[A-Z\s]+\s*\)\s*$  and  ^[A-Z\s]+\s+\)\s*$
IsJuratBlock(t) ==
    \/ /\ Contains(t, <<"s", "s", ".">>) /\ Contains(t, <<")">>)
       /\ ContainsAny(upper(t), {<<"S", "T", "A", "T", "E", " ", "O", "F">>, <<"C", "O", "U", "N", "T", "Y", " ", "O", "F">>})
    \/ matchI(Cat(<<Words(<<<<"S", "T", "A", "T", "E">>, <<"C", "O", "U", "N", "T", "Y">>>>), Plus(wspace), Lit(<<"O", "F">>), Plus(wspace),
                    Plus(Ch(Upper \cup WhiteSpace)), Star(wspace), Lit(<<")">>), Star(wspace),
                    EndAnchor>>), t)
    \/ /\ match(Cat(<<Plus(Ch(Upper \cup WhiteSpace)), Plus(wspace), Lit(<<")">>), Star(wspace),
                      EndAnchor>>), t)
       /\ ContainsAny(upper(t), {<<"S", "T", "A", "T", "E">>, <<"C", "O", "U", "N", "T", "Y">>})

\* ^\d+\.\s+The\s+damages
IsDamagesHeading(t) ==
    \/ Contains(upper(t), <<"T", "O", "T", "A", "L", " ", "D", "A", "M", "A", "G", "E", "S", " ", "A", "L", "L", "E", "G", "E", "D">>)
    \/ /\ Contains(upper(t), <<"D", "A", "M", "A", "G", "E", "S">>) /\ Contains(upper(t), <<"I", "N", "J", "U", "R", "I", "E", "S", " ", "S", "U", "S", "T", "A", "I", "N", "E", "D">>)
       /\ endswith(strip(t), <<":">>)
    \/ matchI(Cat(<<Plus(digit), Lit(<<".">>), Plus(wspace), Lit(<<"T", "h", "e">>), Plus(wspace),
                    Lit(<<"d", "a", "m", "a", "g", "e", "s">>)>>), t)

\* ^\d+[\.\)]\s+
NumberTokenRe == Cat(<<Plus(digit), Ch({".", ")"}), Plus(wspace)>>)

IsClaimPoint(t) ==
    LET t_no_num == lower(strip(subPrefix(NumberTokenRe, t)))
    IN \/ startswith(t_no_num, <<"t", "h", "e", " ", "n", "a", "m", "e", " ", "a", "n", "d", " ", "p", "o", "s", "t", "-", "o", "f", "f", "i", "c", "e", " ", "a", "d", "d", "r", "e", "s", "s", " ", "o", "f", " ", "t", "h", "e", " ", "c", "l", "a", "i", "m", "a", "n", "t">>)
       \/ startswith(t_no_num, <<"t", "h", "e", " ", "n", "a", "t", "u", "r", "e", " ", "o", "f", " ", "t", "h", "e", " ", "c", "l", "a", "i", "m">>)
       \/ startswith(t_no_num, <<"t", "h", "e", " ", "t", "i", "m", "e", " ", "w", "h", "e", "n", ",", " ", "t", "h", "e", " ", "p", "l", "a", "c", "e", " ", "w", "h", "e", "r", "e", " ", "a", "n", "d", " ", "t", "h", "e", " ", "m", "a", "n", "n", "e", "r", " ", "i", "n", " ", "w", "h", "i", "c", "h", " ", "t", "h", "e", " ", "c", "l", "a", "i", "m", " ", "a", "r", "o", "s", "e">>)
       \/ startswith(t_no_num, <<"t", "h", "e", " ", "d", "a", "m", "a", "g", "e", "s", ",", " ", "a", "n", "d", " ", "i", "n", "j", "u", "r", "i", "e", "s", " ", "s", "u", "s", "t", "a", "i", "n", "e", "d">>)

\* ^Attached\s+(hereto|herein|herewith)\s+is\s*:?\s*$
IsListIntro(t) ==
    \/ matchI(Cat(<<Lit(<<"A", "t", "t", "a", "c", "h", "e", "d">>), Plus(wspace), Words(<<<<"h", "e", "r", "e", "t", "o">>, <<"h", "e", "r", "e", "i", "n">>, <<"h", "e", "r", "e", "w", "i", "t", "h">>>>),
                    Plus(wspace), Lit(<<"i", "s">>), Star(wspace), Opt(Lit(<<":">>)), Star(wspace),
                    EndAnchor>>), t)
    \/ (endswith(strip(t), <<":">>) /\ Contains(lower(t), <<"a", "t", "t", "a", "c", "h", "e", "d">>) /\ Len(t) < 50)

\* ^[\-\u2022]\s+
IsBulletItem(t) ==
    \/ match(Cat(<<Ch({"-", BULLET}), Plus(wspace)>>), t)
    \/ (startswith(strip(t), <<"-">>) /\ Len(strip(t)) > 2)

Months ==
    <<<<"J", "a", "n", "u", "a", "r", "y">>, <<"F", "e", "b", "r", "u", "a", "r", "y">>, <<"M", "a", "r", "c", "h">>, <<"A", "p", "r", "i", "l">>, <<"M", "a", "y">>, <<"J", "u", "n", "e">>, <<"J", "u", "l", "y">>, <<"A", "u", "g", "u", "s", "t">>,
      <<"S", "e", "p", "t", "e", "m", "b", "e", "r">>, <<"O", "c", "t", "o", "b", "e", "r">>, <<"N", "o", "v", "e", "m", "b", "e", "r">>, <<"D", "e", "c", "e", "m", "b", "e", "r">>>>

\* ^Dated\s*:\s*  and  ^(January|...|December)\s+_{2,}
IsDatingLine(t) ==
    \/ matchI(Cat(<<Lit(<<"D", "a", "t", "e", "d">>), Star(wspace), Lit(<<":">>), Star(wspace)>>), t)
    \/ matchI(Cat(<<Words(Months), Plus(wspace), Rep(Lit(<<"_">>), 2, -1)>>), t)

\* ^P:\s*\d|^F:\s*\d|^Fax\s*:  and  ^[\d\-\(\)\s\.]+$
IsPhoneFaxLine(t) ==
    \/ matchI(Alt(<<Cat(<<Lit(<<"P", ":">>), Star(wspace), digit>>),
                    Cat(<<Lit(<<"F", ":">>), Star(wspace), digit>>),
                    Cat(<<Lit(<<"F", "a", "x">>), Star(wspace), Lit(<<":">>)>>)>>), t)
    \/ /\ Len(t) < 50
       /\ match(Cat(<<Plus(Ch(Digit \cup WhiteSpace \cup {"-", "(", ")", "."})), EndAnchor>>), t)
       /\ ContainsAny(t, {<<"2", "1", "2", "-">>, <<"5", "1", "6", "-">>, <<"T", "e", "l">>})

IsEmailLine(t) ==
    Contains(t, <<"@">>) /\ ContainsAny(lower(t), {<<"e", "m", "a", "i", "l">>, <<".", "c", "o", "m">>, <<".", "o", "r", "g">>})

\* ^\d+\s+[A-Za-z\s]+(Turnpike|Street|Avenue|Boulevard|Road|Drive|Lane),?\s*$
\* and  ^[A-Za-z\s]+,\s*(New York|NY)\s+\d{5}
IsAddressLine(t) ==
    \/ match(Cat(<<Plus(digit), Plus(wspace), Plus(Ch(Upper \cup Lower \cup WhiteSpace)),
                   Words(<<<<"T", "u", "r", "n", "p", "i", "k", "e">>, <<"S", "t", "r", "e", "e", "t">>, <<"A", "v", "e", "n", "u", "e">>, <<"B", "o", "u", "l", "e", "v", "a", "r", "d">>, <<"R", "o", "a", "d">>, <<"D", "r", "i", "v", "e">>,
                           <<"L", "a", "n", "e">>>>),
                   Opt(Lit(<<",">>)), Star(wspace), EndAnchor>>), t)
    \/ matchI(Cat(<<Plus(Ch(Upper \cup Lower \cup WhiteSpace)), Lit(<<",">>), Star(wspace),
                    Words(<<<<"N", "e", "w", " ", "Y", "o", "r", "k">>, <<"N", "Y">>>>), Plus(wspace), Rep(digit, 5, 5)>>), t)

IsFirmBlockLine(t) ==
    /\ isupper(t) /\ Len(t) < 60
    /\ ContainsAny(t, {<<",">>, <<"L", "L", "C">>, <<"P", ".", "C", ".">>, <<"P", "L", "L", "C">>})
    /\ ~endswith(t, <<":">>)

\* The section-heading rule: the role it returns, or "" when it falls through.
SectionHeading(t) ==
    IF isupper(t) /\ WordCount(t) <= 15
    THEN IF ContainsAny(t, {<<"C", "A", "U", "S", "E", " ", "O", "F", " ", "A", "C", "T", "I", "O", "N">>, <<"A", "S", " ", "A", "N", "D", " ", "F", "O", "R">>}) THEN Ontology.CAUSE_OF_ACTION_HEADING
         ELSE IF ContainsAny(t, {<<"V", "E", "R", "I", "F", "I", "C", "A", "T", "I", "O", "N">>, <<"A", "F", "F", "I", "D", "A", "V", "I", "T">>, <<"J", "U", "R", "A", "T">>}) THEN Ontology.VERIFICATION_HEADING
         ELSE IF ~endswith(t, <<".">>) /\ (endswith(t, <<":">>) \/ Len(t) < 50) THEN Ontology.SECTION_HEADING
         ELSE ""
    ELSE ""

IsCauseOfActionTitle(t) ==
    isupper(t) /\ WordCount(t) <= 5 /\ Len(t) < 40 /\ ~endswith(t, <<".">>)

\* allegation_starts
AllegationStarts ==
    << Cat(<<Lit(<<"T", "h", "a", "t">>), Plus(wspace), Lit(<<"o", "n">>), Plus(wspace)>>),
       Cat(<<Lit(<<"T", "h", "a", "t">>), Plus(wspace), Lit(<<"a", "t">>), Plus(wspace)>>),
       Cat(<<Lit(<<"T", "h", "a", "t">>), Plus(wspace), Lit(<<"t", "h", "e">>), Plus(wspace)>>),
       Cat(<<Lit(<<"T", "h", "a", "t">>), Plus(wspace), Lit(<<"d", "e", "f", "e", "n", "d", "a", "n", "t">>)>>),
       Cat(<<Lit(<<"B", "y">>), Plus(wspace), Lit(<<"r", "e", "a", "s", "o", "n">>), Plus(wspace), Lit(<<"o", "f">>), Plus(wspace)>>),
       Cat(<<Lit(<<"A", "s">>), Plus(wspace), Lit(<<"a">>), Plus(wspace), Lit(<<"r", "e", "s", "u", "l", "t">>), Plus(wspace)>>),
       Cat(<<Lit(<<"A", "t">>), Plus(wspace), Lit(<<"a", "l", "l">>), Plus(wspace), Lit(<<"t", "i", "m", "e", "s">>), Plus(wspace)>>),
       Cat(<<Lit(<<"P", "l", "a", "i", "n", "t", "i", "f", "f">>), Plus(wspace), Lit(<<"r", "e", "p", "e", "a", "t", "s">>)>>),
       Cat(<<Lit(<<"U", "p", "o", "n">>), Plus(wspace), Lit(<<"i", "n", "f", "o", "r", "m", "a", "t", "i", "o", "n">>)>>),
       Cat(<<Lit(<<"I", "t">>), Plus(wspace), Lit(<<"i", "s">>), Plus(wspace), Lit(<<"a", "l", "l", "e", "g", "e", "d">>), Plus(wspace),
             Lit(<<"t", "h", "a", "t">>), Plus(wspace)>>),
       Cat(<<Lit(<<"R", "e", "s", "p", "o", "n", "d", "e", "n", "t">>), Opt(Lit(<<",">>)), Plus(wspace), Lit(<<"i", "t", "s">>), Plus(wspace),
             Lit(<<"a", "g", "e", "n", "t", "s">>)>>),
       Cat(<<Lit(<<"A", "l", "l">>), Plus(wspace), Lit(<<"r", "e", "s", "p", "o", "n", "d", "e", "n", "t">>), Plus(wspace), Lit(<<"h", "a", "d">>),
             Plus(wspace)>>),
       Cat(<<Lit(<<"m", "a", "n", "a", "g", "e", "m", "e", "n", "t">>), Opt(Lit(<<",">>)), Plus(wspace), Lit(<<"m", "a", "i", "n", "t", "e", "n", "a", "n", "c", "e">>)>>),
       Cat(<<Lit(<<"T", "h", "e">>), Plus(wspace), Lit(<<"i", "n", "j", "u", "r", "i", "e", "s">>), Plus(wspace), Lit(<<"s", "u", "s", "t", "a", "i", "n", "e", "d">>)>>),
       Cat(<<Lit(<<"D", "u", "e">>), Plus(wspace), Lit(<<"t", "o">>), Plus(wspace), Lit(<<"t", "h", "e">>), Plus(wspace),
             Words(<<<<"d", "a", "n", "g", "e", "r", "o", "u", "s">>, <<"n", "e", "g", "l", "i", "g", "e", "n", "t">>>>)>>) >>

\* Mutant: the allegation starters are searched for anywhere in the text.
IsLegalAllegation_Unanchored(t) == \E i \in DOMAIN AllegationStarts : searchI(AllegationStarts[i], t)

IsLegalAllegation(t) == \E i \in DOMAIN AllegationStarts : matchI(AllegationStarts[i], t)

IsNumberedParagraph(t) == match(NumberTokenRe, t)

\* ^[\s_\-]+$ with len(t) > 5
IsSignatureRun(t) ==
    match(Cat(<<Plus(Ch(WhiteSpace \cup {"_", "-"})), EndAnchor>>), t) /\ Len(t) > 5

IsSignatureBlock(t) ==
    \/ ContainsAny(upper(t), {<<"E", "S", "Q">>, <<"E", "S", "Q", ".">>})
    \/ ContainsAny(upper(t), {<<"A", "T", "T", "O", "R", "N", "E", "Y", "S", " ", "F", "O", "R">>, <<"A", "T", "T", "O", "R", "N", "E", "Y", " ", "F", "O", "R">>})

\* ^_{10,}$  and  ^[\s_]{15,}$
IsLongUnderscoreRun(t) ==
    \/ match(Cat(<<Rep(Lit(<<"_">>), 10, -1), EndAnchor>>), t)
    \/ match(Cat(<<Rep(Ch(WhiteSpace \cup {"_"}), 15, -1), EndAnchor>>), t)

\* ^[A-Z][a-z]+ [A-Z][a-z]+,?\s+an?\s+attorney
IsVerificationBody(t) ==
    \/ ContainsAny(lower(t), {<<"u", "n", "d", "e", "r", " ", "p", "e", "n", "a", "l", "t", "y">>, <<"p", "e", "n", "a", "l", "t", "i", "e", "s", " ", "o", "f", " ", "p", "e", "r", "j", "u", "r", "y">>, <<"d", "u", "l", "y", " ", "s", "w", "o", "r", "n">>})
    \/ matchI(Cat(<<Ch(Upper), Plus(Ch(Lower)), Lit(<<" ">>), Ch(Upper), Plus(Ch(Lower)),
                    Opt(Lit(<<",">>)), Plus(wspace), Lit(<<"a">>), Opt(Lit(<<"n">>)), Plus(wspace),
                    Lit(<<"a", "t", "t", "o", "r", "n", "e", "y">>)>>), t)

IsSummonsBody(t) ==
    ContainsAny(lower(t), {<<"y", "o", "u", " ", "a", "r", "e", " ", "h", "e", "r", "e", "b", "y", " ", "s", "u", "m", "m", "o", "n", "e", "d">>, <<"y", "o", "u", " ", "a", "r", "e", " ", "h", "e", "r", "e", "b", "y", " ", "d", "i", "r", "e", "c", "t", "e", "d">>})

\* classify_paragraph: the first rule that matches decides
classify_paragraph(raw) ==
    LET t == strip(raw) IN
    IF t = <<>> THEN Ontology.EMPTY
    ELSE IF is_separator_line(t) THEN Ontology.LINE
    ELSE IF IsCourtHeader(t) THEN Ontology.COURT_HEADER
    ELSE IF IsCountyLine(t) THEN Ontology.COUNTY_LINE
    ELSE IF IsVersusLine(t) THEN Ontology.VERSUS_LINE
    ELSE IF IsWherefore(t) THEN Ontology.WHEREFORE_CLAUSE
    ELSE IF IsPartyAllegation(t) THEN Ontology.LEGAL_ALLEGATION
    ELSE IF PartyCaption(t) # "" THEN PartyCaption(t)
    ELSE IF IsDocTitle(t) THEN Ontology.DOC_TITLE
    ELSE IF IsNoticeToLine(t) THEN Ontology.NOTICE_TO_LINE
    ELSE IF IsMatterOfLine(t) THEN DetectorRoles.MATTER_OF_LINE
    ELSE IF IsJuratBlock(t) THEN DetectorRoles.JURAT_BLOCK
    ELSE IF IsDamagesHeading(t) THEN DetectorRoles.DAMAGES_HEADING
    ELSE IF IsClaimPoint(t) THEN Ontology.NUMBERED_PARAGRAPH
    ELSE IF IsListIntro(t) THEN DetectorRoles.LIST_INTRO
    ELSE IF IsBulletItem(t) THEN DetectorRoles.BULLET_ITEM
    ELSE IF IsDatingLine(t) THEN DetectorRoles.DATING_LINE
    ELSE IF IsPhoneFaxLine(t) THEN DetectorRoles.PHONE_FAX_LINE
    ELSE IF IsEmailLine(t) THEN DetectorRoles.EMAIL_LINE
    ELSE IF IsAddressLine(t) THEN Ontology.BODY_PARAGRAPH
    ELSE IF IsFirmBlockLine(t) THEN Ontology.FIRM_BLOCK_LINE
    ELSE IF SectionHeading(t) # "" THEN SectionHeading(t)
    ELSE IF IsCauseOfActionTitle(t) THEN Ontology.CAUSE_OF_ACTION_TITLE
    ELSE IF IsLegalAllegation(t) THEN Ontology.LEGAL_ALLEGATION
    ELSE IF IsNumberedParagraph(t) THEN Ontology.NUMBERED_PARAGRAPH
    ELSE IF IsSignatureRun(t) THEN Ontology.SIGNATURE_LINE
    ELSE IF IsSignatureBlock(t) THEN Ontology.SIGNATURE_BLOCK
    ELSE IF IsLongUnderscoreRun(t) THEN Ontology.SIGNATURE_LINE
    ELSE IF IsVerificationBody(t) THEN Ontology.VERIFICATION_BODY
    ELSE IF IsSummonsBody(t) THEN Ontology.SUMMONS_BODY
    ELSE Ontology.BODY_PARAGRAPH

----------------------------------------------------------------------------
(* Specification of the classifier: one call of classify_paragraph *)

\* The characters the enumerated inputs are made of
Alphabet == {" ", "\t", NBSP, "_", "-", ".", "=", "X", "x", "a", "1"}

\* Paragraphs of the kinds the rules are written for
SampleTexts ==
    { <<"S", "U", "P", "R", "E", "M", "E", " ", "C", "O", "U", "R", "T", " ", "O", "F", " ", "T", "H", "E", " ", "S", "T", "A", "T", "E", " ", "O", "F", " ", "N", "E", "W", " ", "Y", "O", "R", "K">>,
      <<"C", "O", "U", "N", "T", "Y", " ", "O", "F", " ", "N", "A", "S", "S", "A", "U">>,
      <<"-", "a", "g", "a", "i", "n", "s", "t", "-">>,
      <<"W", "H", "E", "R", "E", "F", "O", "R", "E", ",", " ", "p", "l", "a", "i", "n", "t", "i", "f", "f", " ", "d", "e", "m", "a", "n", "d", "s", " ", "j", "u", "d", "g", "m", "e", "n", "t", " ", "a", "g", "a", "i", "n", "s", "t", " ", "d", "e", "f", "e", "n", "d", "a", "n", "t", ".">>,
      <<"D", "e", "f", "e", "n", "d", "a", "n", "t", ",", " ", "i", "t", "s", " ", "a", "g", "e", "n", "t", "s", " ", "a", "n", "d", " ", "e", "m", "p", "l", "o", "y", "e", "e", "s", " ", "w", "e", "r", "e", " ", "n", "e", "g", "l", "i", "g", "e", "n", "t", ".">>,
      <<"P", "l", "a", "i", "n", "t", "i", "f", "f", ",">>,
      <<"J", "O", "H", "N", " ", "D", "O", "E", ",", " ", "P", "l", "a", "i", "n", "t", "i", "f", "f">>,
      <<"V", "E", "R", "I", "F", "I", "E", "D", " ", "C", "O", "M", "P", "L", "A", "I", "N", "T">>,
      <<"T", "O", ":", " ", "T", "H", "E", " ", "C", "L", "E", "R", "K">>,
      <<"I", "n", " ", "t", "h", "e", " ", "M", "a", "t", "t", "e", "r", " ", "o", "f", " ", "t", "h", "e", " ", "C", "l", "a", "i", "m", " ", "o", "f", ":">>,
      <<"S", "T", "A", "T", "E", " ", "O", "F", " ", "N", "E", "W", " ", "Y", "O", "R", "K", " ", ")">>,
      <<"T", "O", "T", "A", "L", " ", "D", "A", "M", "A", "G", "E", "S", " ", "A", "L", "L", "E", "G", "E", "D", ":">>,
      <<"2", ".", " ", "T", "h", "e", " ", "n", "a", "t", "u", "r", "e", " ", "o", "f", " ", "t", "h", "e", " ", "c", "l", "a", "i", "m", ":">>,
      <<"A", "t", "t", "a", "c", "h", "e", "d", " ", "h", "e", "r", "e", "t", "o", " ", "i", "s", ":">>,
      <<"-", " ", "a", " ", "c", "o", "p", "y", " ", "o", "f", " ", "t", "h", "e", " ", "r", "e", "p", "o", "r", "t">>,
      <<"D", "a", "t", "e", "d", ":", " ", "M", "i", "n", "e", "o", "l", "a", ",", " ", "N", "e", "w", " ", "Y", "o", "r", "k">>,
      <<"F", "a", "x", ":", " ", "5", "1", "6", "-", "5", "5", "5", "-", "0", "1", "0", "0">>,
      <<"i", "n", "f", "o", "@", "f", "i", "r", "m", ".", "c", "o", "m">>,
      <<"1", "0", "0", " ", "M", "a", "i", "n", " ", "S", "t", "r", "e", "e", "t">>,
      <<"S", "M", "I", "T", "H", " ", "&", " ", "J", "O", "N", "E", "S", ",", " ", "L", "L", "P">>,
      <<"F", "I", "R", "S", "T", " ", "C", "A", "U", "S", "E", " ", "O", "F", " ", "A", "C", "T", "I", "O", "N">>,
      <<"A", "T", "T", "O", "R", "N", "E", "Y", "'", "S", " ", "V", "E", "R", "I", "F", "I", "C", "A", "T", "I", "O", "N">>,
      <<"J", "U", "R", "I", "S", "D", "I", "C", "T", "I", "O", "N", " ", "A", "N", "D", " ", "V", "E", "N", "U", "E", ":">>,
      <<"t", "h", "e", " ", "c", "o", "u", "r", "t", " ", "f", "i", "n", "d", "s", " ", "a", "s", " ", "f", "o", "l", "l", "o", "w", "s", " ", "i", "n", " ", "r", "e", " ", "x", ".">>,
      <<"T", "h", "a", "t", " ", "o", "n", " ", "J", "u", "n", "e", " ", "1", ",", " ", "2", "0", "2", "3", ",", " ", "d", "e", "f", "e", "n", "d", "a", "n", "t", " ", "f", "a", "i", "l", "e", "d", " ", "t", "o", " ", "m", "a", "i", "n", "t", "a", "i", "n", " ", "t", "h", "e", " ", "p", "r", "e", "m", "i", "s", "e", "s", ".">>,
      <<"1", ".", " ", "T", "h", "a", "t", " ", "o", "n", " ", "J", "u", "n", "e", " ", "1", ",", " ", "2", "0", "2", "3", ",", " ", "d", "e", "f", "e", "n", "d", "a", "n", "t", " ", "f", "a", "i", "l", "e", "d", " ", "t", "o", " ", "m", "a", "i", "n", "t", "a", "i", "n", " ", "t", "h", "e", " ", "p", "r", "e", "m", "i", "s", "e", "s", ".">>,
      <<"3", ")", " ", "T", "h", "e", " ", "l", "e", "a", "s", "e", " ", "w", "a", "s", " ", "s", "i", "g", "n", "e", "d", ".">>,
      <<"J", "o", "h", "n", " ", "S", "m", "i", "t", "h", ",", " ", "E", "s", "q", ".">>,
      <<"b", "e", "i", "n", "g", " ", "d", "u", "l", "y", " ", "s", "w", "o", "r", "n", ",", " ", "d", "e", "p", "o", "s", "e", "s", " ", "a", "n", "d", " ", "s", "a", "y", "s">>,
      <<"Y", "o", "u", " ", "a", "r", "e", " ", "h", "e", "r", "e", "b", "y", " ", "s", "u", "m", "m", "o", "n", "e", "d", " ", "t", "o", " ", "a", "n", "s", "w", "e", "r", " ", "t", "h", "e", " ", "c", "o", "m", "p", "l", "a", "i", "n", "t", ".">>,
      <<"T", "h", "e", " ", "p", "a", "r", "t", "i", "e", "s", " ", "m", "e", "t", " ", "i", "n", " ", "M", "a", "r", "c", "h", ".">>,
      <<"_", "_", "_", "_", "_", "_", "_", "_", "_", "_">>,
      <<"-", "-", "-", "-", "-", "-", "-", "-", "-", "-", "-", "-", "-", "-", "-", "-", "-", "-", "-", "-", "-", "-", "-", "-", "-", "-", "-", "-", "-", "X">>,
      <<"=", "=", "=", "=", "=", "=", "=", "=", "=", "=", "=", "=", "=", "=", "=", "=", "=", "=", "=", "=", "=", "=", "=", "=", "=">>,
      <<" ", " ", " ", "\t", " ">> }

\* Scenario D of the specification
ScenarioD == <<"1", ".", " ", "T", "h", "a", "t", " ", "o", "n", " ", "J", "u", "n", "e", " ", "1", ",", " ", "2", "0", "2", "3", ",", " ", "d", "e", "f", "e", "n", "d", "a", "n", "t", " ", "f", "a", "i", "l", "e", "d", " ", "t", "o", " ", "m", "a", "i", "n", "t", "a", "i", "n", ".", ".", ".">>

\* Paragraphs that begin with WHEREFORE in some letter case, alone, with a
\* party word, and in the forms the earlier rules of the chain catch
WhereforeTexts ==
    { <<"W", "H", "E", "R", "E", "F", "O", "R", "E">>,
      <<"W", "h", "e", "r", "e", "f", "o", "r", "e", ",", " ", "P", "l", "a", "i", "n", "t", "i", "f", "f", " ", "d", "e", "m", "a", "n", "d", "s", " ", "j", "u", "d", "g", "m", "e", "n", "t", " ", "a", "g", "a", "i", "n", "s", "t", " ", "D", "e", "f", "e", "n", "d", "a", "n", "t", ".">>,
      <<"w", "h", "e", "r", "e", "f", "o", "r", "e", " ", "t", "h", "e", " ", "P", "e", "t", "i", "t", "i", "o", "n", "e", "r", " ", "p", "r", "a", "y", "s", " ", "f", "o", "r", " ", "r", "e", "l", "i", "e", "f">>,
      <<" ", " ", "W", "H", "E", "R", "E", "F", "O", "R", "E", ",", " ", "C", "l", "a", "i", "m", "a", "n", "t", " ", "d", "e", "m", "a", "n", "d", "s", " ", "j", "u", "d", "g", "m", "e", "n", "t", ".">>,
      <<"W", "H", "E", "R", "E", "F", "O", "R", "E", " ", "T", "H", "E", " ", "C", "O", "U", "R", "T">>,
      <<"W", "H", "E", "R", "E", "F", "O", "R", "E", ".", " ", "D", "I", "S", "T", "R", "I", "C", "T", " ", "9">>,
      <<"w", "h", "e", "r", "e", "f", "o", "r", "e", "-", "a", "g", "a", "i", "n", "s", "t", "-">>,
      <<"P", "l", "a", "i", "n", "t", "i", "f", "f", ",", " ", "W", "H", "E", "R", "E", "F", "O", "R", "E", " ", "d", "e", "m", "a", "n", "d", "s", " ", "j", "u", "d", "g", "m", "e", "n", "t", ".">> }

\* The longest run of underscores among the inputs
MaxUnderscores == 20

\* Lines made only of underscores, up to the lengths the signature-line
\* patterns ask for (more than 5, at least 10, at least 15)
UnderscoreRuns == { [i \in 1..n |-> "_"] : n \in 1..MaxUnderscores }

ClassifierInputs == SeqsUpTo(Alphabet, MaxTextLen) \cup SampleTexts \cup {ScenarioD} \cup WhereforeTexts \cup UnderscoreRuns

InitClassifier ==
    /\ pc = "classify"
    /\ text \in ClassifierInputs
    /\ role = "(none)"
    /\ OnlyClassifier

\* role = classify_paragraph(text)
Classify ==
    /\ pc = "classify"
    /\ role' = classify_paragraph(text)
    /\ pc' = "classified"
    /\ UNCHANGED <<text, restOfClassifier>>

NextClassifier == Classify

SpecClassifier == InitClassifier /\ [][NextClassifier]_vars

\* The text has no visible character: it is empty or whitespace only
IsBlank(t) == \A i \in DOMAIN t : t[i] \in WhiteSpace

\* C7: classify_paragraph returns the role empty exactly for a text that is
\* empty or whitespace-only; a text with a visible character gets another role.
C7_EmptyIffBlank ==
    pc = "classified" => (role = Ontology.EMPTY <=> IsBlank(text))

C7_Witness ==
    /\ pc = "classified"
    /\ Len(text) >= 2
    /\ IsBlank(text)
    /\ role = Ontology.EMPTY

\* A string made only of spaces, underscores, hyphens, periods and equals
\* signs, optionally ending in X or x
IsSeparatorString(t) ==
    LET core == IF t # <<>> /\ t[Len(t)] \in {"X", "x"} THEN SubSeq(t, 1, Len(t) - 1) ELSE t
    IN \A i \in DOMAIN core : core[i] \in {" ", "_", "-", ".", "="}

\* C8: every string composed solely of spaces, underscores, hyphens, periods
\* and equals signs, optionally ending in X or x, is classified as line.  The
\* claim is stated for the strings that keep at least three characters once
\* stripped, which leaves out the blank and the one- or two-character strings.
C8_SeparatorRecognition ==
    (pc = "classified" /\ IsSeparatorString(text) /\ Len(strip(text)) >= 3) => role = Ontology.LINE

\* The text begins with a digit token "N." or "N)" followed by whitespace
BeginsWithNumberToken(raw) == match(NumberTokenRe, raw) \/ match(NumberTokenRe, strip(raw))

\* C20: a paragraph that begins with a digit token is never classified
\* legal_allegation, and the paragraph of scenario D is classified
\* numbered_paragraph.
C20_NumberTokenFirst ==
    (pc = "classified" /\ BeginsWithNumberToken(text)) =>
        /\ role # Ontology.LEGAL_ALLEGATION
        /\ text = ScenarioD => role = Ontology.NUMBERED_PARAGRAPH

C20_Witness ==
    /\ pc = "classified"
    /\ text = ScenarioD
    /\ role = Ontology.NUMBERED_PARAGRAPH

----------------------------------------------------------------------------
(* Style resolver: style_matcher.resolve_block_style *)

\* Python's None where a string is expected, and the values "not x" rejects
PyNone == "<None>"
Falsy(v) == v \in {PyNone, ""}

\* ONTOLOGY_TO_STYLE_MAP_KEY
ONTOLOGY_TO_STYLE_MAP_KEY ==
    (Ontology.COURT_HEADER :> "heading") @@ (Ontology.COUNTY_LINE :> "heading")
    @@ (Ontology.CAPTION_SEPARATOR :> "paragraph") @@ (Ontology.CAPTION_PARTY :> "heading")
    @@ (Ontology.CAPTION_ROLE :> "heading") @@ (Ontology.VERSUS_LINE :> "heading")
    @@ (Ontology.DOC_TITLE :> "heading") @@ (Ontology.NOTICE_TO_LINE :> "section_header")
    @@ (Ontology.SECTION_HEADING :> "section_header") @@ (Ontology.SECTION_HEADING_MAJOR :> "section_header")
    @@ (Ontology.CAUSE_OF_ACTION_HEADING :> "section_header")
    @@ (Ontology.CAUSE_OF_ACTION_TITLE :> "section_header")
    @@ (Ontology.BODY_PARAGRAPH :> "paragraph") @@ (Ontology.LEGAL_ALLEGATION :> "numbered")
    @@ (Ontology.NUMBERED_PARAGRAPH :> "numbered") @@ (Ontology.WHEREFORE_CLAUSE :> "wherefore")
    @@ (Ontology.WHEREFORE_HEADING :> "wherefore") @@ (Ontology.SIGNATURE_LINE :> "paragraph")
    @@ (Ontology.SIGNATURE_BLOCK :> "paragraph") @@ (Ontology.FIRM_BLOCK_LINE :> "paragraph")
    @@ (Ontology.VERIFICATION_HEADING :> "section_header") @@ (Ontology.VERIFICATION_BODY :> "paragraph")
    @@ (Ontology.SUMMONS_BODY :> "paragraph") @@ (Ontology.LINE :> "paragraph") @@ (Ontology.EMPTY :> "paragraph")

\* The keys of a template's style_map
StyleMapKeys == {"heading", "section_header", "paragraph", "numbered", "wherefore"}

\* A style_map: a dict in which a key is absent (PyNone), empty or names a
\* style of the template.  None and {} are the map with every key absent:
\* the program reads the table as (style_map or {}).
TemplateStyle(key) ==
    CASE key = "heading" -> "Heading 1"
      [] key = "section_header" -> "Heading 2"
      [] key = "paragraph" -> "Body Text"
      [] key = "numbered" -> "List Number"
      [] key = "wherefore" -> "Wherefore"

StyleMaps ==
    { [k \in StyleMapKeys |-> IF k \in absent THEN PyNone
                              ELSE IF k \in blank THEN "" ELSE TemplateStyle(k)] :
        absent \in SUBSET StyleMapKeys, blank \in SUBSET StyleMapKeys }

\* The roles a caller passes: the ontology's, the roles the classifier returns
\* beyond it, an unheard-of one, the empty string and None
ResolverRoles ==
    DOMAIN ONTOLOGY_TO_STYLE_MAP_KEY
    \cup {DetectorRoles.BULLET_ITEM, DetectorRoles.DAMAGES_HEADING, DetectorRoles.DATING_LINE, DetectorRoles.EMAIL_LINE, DetectorRoles.JURAT_BLOCK, DetectorRoles.LIST_INTRO,
          DetectorRoles.MATTER_OF_LINE, DetectorRoles.PHONE_FAX_LINE, "address_block", "", PyNone}

\* (style_map or {}).get(key)
Get(sm, key) == sm[key]

\* a or b
Or(a, b) == IF Falsy(a) THEN b ELSE a

\* Mutant: a style group the table lacks falls back to "Normal" at once.
resolve_block_style_NoParagraphFallback(ot, sm) ==
    IF Falsy(ot) \/ ot \notin DOMAIN ONTOLOGY_TO_STYLE_MAP_KEY
    THEN Or(Get(sm, "paragraph"), "Normal")
    ELSE IF ot = Ontology.LINE THEN "line"
    ELSE IF ot = Ontology.SIGNATURE_LINE THEN "signature_line"
    ELSE Or(Get(sm, ONTOLOGY_TO_STYLE_MAP_KEY[ot]), "Normal")

\* resolve_block_style
resolve_block_style(ot, sm) ==
    IF Falsy(ot) \/ ot \notin DOMAIN ONTOLOGY_TO_STYLE_MAP_KEY
    THEN Or(Get(sm, "paragraph"), "Normal")
    ELSE IF ot = Ontology.LINE THEN "line"
    ELSE IF ot = Ontology.SIGNATURE_LINE THEN "signature_line"
    ELSE Or(Get(sm, ONTOLOGY_TO_STYLE_MAP_KEY[ot]), Or(Get(sm, "paragraph"), "Normal"))

InitResolver ==
    /\ pc = "resolve"
    /\ ontology_type \in ResolverRoles
    /\ style_map \in StyleMaps
    /\ style = "(none)"
    /\ OnlyResolver

\* style = resolve_block_style(ontology_type, style_map)
Resolve ==
    /\ pc = "resolve"
    /\ style' = resolve_block_style(ontology_type, style_map)
    /\ pc' = "resolved"
    /\ UNCHANGED <<ontology_type, style_map, restOfResolver>>

NextResolver == Resolve

SpecResolver == InitResolver /\ [][NextResolver]_vars

\* The table has a non-empty entry under the key
HasStyle(sm, key) == sm[key] # PyNone /\ sm[key] # ""

\* The table's paragraph style, "Normal" when it has none
ParagraphStyle(sm) == IF HasStyle(sm, "paragraph") THEN sm["paragraph"] ELSE "Normal"

KnownRole(ot) == ot \in DOMAIN ONTOLOGY_TO_STYLE_MAP_KEY

\* C10: resolve_block_style never fails and returns a non-empty style: the
\* literal "line" / "signature_line" for those two roles whatever the table
\* holds; for any other known role the table's non-empty style of the role's
\* coarse group, else the table's paragraph style, else "Normal"; for an
\* unknown or missing role the paragraph style.
C10_ResolveNeverFails ==
    /\ pc = "resolve" => ENABLED Resolve
    /\ pc = "resolved" =>
        /\ ~Falsy(style)
        /\ ontology_type = Ontology.LINE => style = "line"
        /\ ontology_type = Ontology.SIGNATURE_LINE => style = "signature_line"
        /\ (KnownRole(ontology_type) /\ ontology_type \notin {Ontology.LINE, Ontology.SIGNATURE_LINE}) =>
              LET group == ONTOLOGY_TO_STYLE_MAP_KEY[ontology_type]
              IN style = IF HasStyle(style_map, group) THEN style_map[group]
                         ELSE ParagraphStyle(style_map)
        /\ ~KnownRole(ontology_type) => style = ParagraphStyle(style_map)

C10_Witness ==
    /\ pc = "resolved"
    /\ ontology_type = Ontology.LEGAL_ALLEGATION
    /\ style_map["numbered"] = PyNone
    /\ style_map["paragraph"] = "Body Text"
    /\ style = "Body Text"

----------------------------------------------------------------------------
(* Text normalizer: structural_pipeline.normalize_text_for_slot *)

\* The line boundaries of str.splitlines() ("\f" stands for the boundaries
\* other than "\n" and "\r"; every boundary is whitespace for str.strip())
LineBreaks == {"\n", "\r", "\f"}

\* str.splitlines(): the pieces between line boundaries, "\r\n" being one
\* boundary and a boundary at the end opening no further line
RECURSIVE splitlines(_)
splitlines(t) ==
    LET brk == { i \in DOMAIN t : t[i] \in LineBreaks }
    IN IF t = <<>> THEN <<>>
       ELSE IF brk = {} THEN <<t>>
       ELSE LET i == CHOOSE i \in brk : \A k \in brk : i <= k
                n == IF t[i] = "\r" /\ i < Len(t) /\ t[i + 1] = "\n" THEN i + 2 ELSE i + 1
            IN <<SubSeq(t, 1, i - 1)>> \o splitlines(SubSeq(t, n, Len(t)))

\* Mutant: the blank lines are kept.
StrippedLines_KeepingBlank(t) ==
    LET ls == splitlines(t) IN [i \in DOMAIN ls |-> strip(ls[i])]

\* [ln.strip() for ln in t.splitlines() if ln.strip()]
StrippedLines(t) ==
    LET ls == splitlines(t)
    IN SelectSeq([i \in DOMAIN ls |-> strip(ls[i])], LAMBDA ln : ln # <<>>)

\* "\n".join(lines)
RECURSIVE join(_)
join(lines) ==
    IF lines = <<>> THEN <<>>
    ELSE IF Len(lines) = 1 THEN lines[1]
    ELSE lines[1] \o <<"\n">> \o join(Tail(lines))

title_phrases ==
    { <<"S", "U", "M", "M", "O", "N", "S">>, <<"C", "O", "M", "P", "L", "A", "I", "N", "T">>, <<"V", "E", "R", "I", "F", "I", "E", "D">>, <<"J", "U", "R", "Y", " ", "T", "R", "I", "A", "L", " ", "D", "E", "M", "A", "N", "D", "E", "D">>,
      <<"A", "S", " ", "A", "N", "D", " ", "F", "O", "R", " ", "A", " ", "F", "I", "R", "S", "T", " ", "C", "A", "U", "S", "E", " ", "O", "F", " ", "A", "C", "T", "I", "O", "N">>, <<"C", "A", "U", "S", "E", " ", "O", "F", " ", "A", "C", "T", "I", "O", "N">>,
      <<"N", "O", "T", "I", "C", "E", " ", "O", "F", " ", "M", "O", "T", "I", "O", "N">>, <<"A", "F", "F", "I", "R", "M", "A", "T", "I", "O", "N">>, <<"A", "F", "F", "I", "D", "A", "V", "I", "T">>, <<"M", "E", "M", "O", "R", "A", "N", "D", "U", "M">> }

looks_like_title_phrase(raw) ==
    LET t == upper(strip(raw))
    IN ContainsAny(t, title_phrases) \/ (Len(t) < 50 /\ isupper(t))

\* slot.get("section_type", "body")
SlotSectionType(s) == IF "section_type" \in DOMAIN s THEN s.section_type ELSE "body"

\* rules_by_type.get(section_type, {}).get("all_caps_typical")
AllCapsTypical(rules, section_type) ==
    section_type \in DOMAIN rules /\ rules[section_type].all_caps_typical

normalize_text_for_slot(raw, s, rules) ==
    IF raw = <<>> \/ strip(raw) = <<>>
    THEN (IF raw # <<>> THEN strip(raw) ELSE <<>>)
    ELSE LET t == strip(raw)
             lines == StrippedLines(t)
             section_type == SlotSectionType(s)
             t_caps == IF /\ AllCapsTypical(rules, section_type)
                          /\ section_type \in {"caption", "body"}
                          /\ Len(t) < 80
                          /\ looks_like_title_phrase(t)
                       THEN upper(t) ELSE t
         IN IF lines # <<>> THEN join(lines) ELSE t_caps

----------------------------------------------------------------------------
(* Specification of the normalizer: one call of normalize_text_for_slot,   *)
(* then a second call on the text the first one returned                    *)

NormAlphabet == {" ", "\n", "\r", "a", "B"}

NormSampleTexts ==
    { <<"S", "u", "m", "m", "o", "n", "s">>, <<"S", "U", "M", "M", "O", "N", "S">>, <<" ", " ", "s", "u", "m", "m", "o", "n", "s", " ", "\n">>, <<"V", "e", "r", "i", "f", "i", "e", "d", " ", "C", "o", "m", "p", "l", "a", "i", "n", "t">>,
      <<"n", "o", "t", "i", "c", "e", " ", "o", "f", " ", "m", "o", "t", "i", "o", "n", "\n", "\n", " ", "t", "o", " ", "r", "e", "s", "t", "o", "r", "e", " ">>, <<"N", "O", "T", "I", "C", "E", " ", "O", "F", " ", "M", "O", "T", "I", "O", "N">>,
      <<"A", "s", " ", "a", "n", "d", " ", "f", "o", "r", " ", "a", " ", "f", "i", "r", "s", "t", "\r", "\n", "c", "a", "u", "s", "e", " ", "o", "f", " ", "a", "c", "t", "i", "o", "n">>, <<"T", "O", ":", "\f", "t", "h", "e", " ", "c", "l", "e", "r", "k">>,
      <<"\t", "T", "h", "a", "t", " ", "o", "n", " ", "J", "u", "n", "e", " ", "1", ",", "\n", "\n", "\n", " ", "2", "0", "2", "3", " ">>, <<"p", "l", "a", "i", "n", "t", "i", "f", "f", NBSP, "\n", NBSP, "d", "e", "m", "a", "n", "d", "s">>,
      <<"S", "U", "P", "R", "E", "M", "E", " ", "C", "O", "U", "R", "T", " ", "O", "F", " ", "T", "H", "E", " ", "S", "T", "A", "T", "E", " ", "O", "F", " ", "N", "E", "W", " ", "Y", "O", "R", "K", "\n", "\n", "C", "O", "U", "N", "T", "Y", " ", "O", "F", " ", "N", "A", "S", "S", "A", "U">>,
      <<"B", "y", " ", "r", "e", "a", "s", "o", "n", " ", "o", "f", " ", "t", "h", "e", " ", "f", "o", "r", "e", "g", "o", "i", "n", "g", ",", " ", "p", "l", "a", "i", "n", "t", "i", "f", "f", " ", "w", "a", "s", " ", "c", "a", "u", "s", "e", "d", " ", "t", "o", " ", "s", "u", "s", "t", "a", "i", "n", " ", "s", "e", "r", "i", "o", "u", "s", " ", "i", "n", "j", "u", "r", "i", "e", "s", " ", "a", "n", "d", " ", "t", "o", " ", "h", "a", "v", "e", " ", "s", "u", "f", "f", "e", "r", "e", "d", " ", "p", "a", "i", "n", ".">>,
      <<"V", "E", "R", "I", "F", "I", "E", "D", " ", "C", "O", "M", "P", "L", "A", "I", "N", "T", " ", "V", "E", "R", "I", "F", "I", "E", "D", " ", "C", "O", "M", "P", "L", "A", "I", "N", "T", " ", "V", "E", "R", "I", "F", "I", "E", "D", " ", "C", "O", "M", "P", "L", "A", "I", "N", "T", " ", "V", "E", "R", "I", "F", "I", "E", "D", " ", "C", "O", "M", "P", "L", "A", "I", "N", "T", " ", "V", "E", "R", "I", "F", "I", "E", "D", " ", "C", "O", "M", "P", "L", "A", "I", "N", "T">> }

NormTexts == SeqsUpTo(NormAlphabet, MaxTextLen) \cup NormSampleTexts

\* Slots of a layout pattern (the normalizer reads their section type only)
NormSlots == [section_type : SectionTypes]

\* Rule summaries as build_formatting_rulebook writes them: one entry for
\* each section type seen in the sample (none, or one type here)
RuleSummaries ==
    { [k \in K |-> [all_caps_typical |-> b]] :
        K \in { {} } \cup { {st} : st \in SectionTypes }, b \in BOOLEAN }

InitNormalizer ==
    /\ norm_text \in NormTexts
    /\ norm_slot \in NormSlots
    /\ rules_by_type \in RuleSummaries
    /\ normalized = Idle
    /\ renormalized = Idle
    /\ pc = "normalize"
    /\ OnlyNormalizer

Normalize ==
    /\ pc = "normalize"
    /\ normalized' = normalize_text_for_slot(norm_text, norm_slot, rules_by_type)
    /\ pc' = "normalized"
    /\ UNCHANGED <<norm_text, norm_slot, rules_by_type, renormalized, restOfNormalizer>>

Renormalize ==
    /\ pc = "normalized"
    /\ renormalized' = normalize_text_for_slot(normalized, norm_slot, rules_by_type)
    /\ pc' = "renormalized"
    /\ UNCHANGED <<norm_text, norm_slot, rules_by_type, normalized, restOfNormalizer>>

NextNormalizer == Normalize \/ Renormalize

SpecNormalizer == InitNormalizer /\ [][NextNormalizer]_vars

----------------------------------------------------------------------------
(* Properties of the normalizer *)

\* C11: normalizing the text a call returned, with the same slot and rule
\* summary, returns it unchanged.
C11_Idempotent == pc = "renormalized" => renormalized = normalized

C11_Witness ==
    /\ pc = "renormalized"
    /\ Len(norm_text) > Len(normalized)
    /\ Contains(normalized, <<"\n">>)
    /\ renormalized = normalized

\* The slot and the text for which the rule of the specification asks for
\* capitals: the section type is all-caps in the sample, the text is shorter
\* than 80 characters and is a title phrase.
CapsCase ==
    /\ AllCapsTypical(rules_by_type, norm_slot.section_type)
    /\ norm_slot.section_type \in {"caption", "body"}
    /\ Len(strip(norm_text)) < 80
    /\ strip(norm_text) # <<>>
    /\ looks_like_title_phrase(norm_text)

\* C18: in the capitals case the text returned has no lowercase letter.
C18_TitleUppercased ==
    (pc = "normalized" /\ CapsCase) => \A i \in DOMAIN normalized : normalized[i] \notin Lower

\* The characters of a text that are not whitespace, in order
NonWhite(t) == SelectSeq(t, LAMBDA c : c \notin WhiteSpace)

\* No line of the text is blank and none starts or ends with whitespace
NoBlankOrPaddedLine(t) ==
    t # <<>> =>
        /\ t[1] \notin WhiteSpace
        /\ t[Len(t)] \notin WhiteSpace
        /\ \A i \in DOMAIN t :
              t[i] \in LineBreaks =>
                  /\ t[i] = "\n"
                  /\ t[i - 1] \notin WhiteSpace
                  /\ t[i + 1] \notin WhiteSpace

\* C19: the text returned has the non-whitespace characters of the input, in
\* the same order and up to letter case, no blank line and no line with
\* leading or trailing whitespace.
C19_NoContentDropped ==
    pc = "normalized" =>
        /\ lower(NonWhite(normalized)) = lower(NonWhite(norm_text))
        /\ NoBlankOrPaddedLine(normalized)

C19_Witness ==
    /\ pc = "normalized"
    /\ Len(StrippedLines(norm_text)) >= 2
    /\ Len(splitlines(strip(norm_text))) > Len(StrippedLines(norm_text))
    /\ Len(NonWhite(normalized)) >= 10

----------------------------------------------------------------------------
(* Structural validator: structural_pipeline.validate_against_sample and   *)
(* the re-parse of a document, _structure_from_doc_safe.  A document is the *)
(* sequence of its body paragraphs, each a text and whether the paragraph   *)
(* carries a bottom border.                                                 *)

max_paragraphs == 500

\* t[:n]
Prefix(t, n) == SubSeq(t, 1, IF Len(t) < n THEN Len(t) ELSE n)

infer_section_type_from_text(raw, block_kind) ==
    LET t == Prefix(lower(strip(raw)), 200)
    IN IF block_kind \in {"line", "signature_line"} THEN "separator"
       ELSE IF t = <<>> \/ t = <<"(", "e", "m", "p", "t", "y", ")">> THEN "body"
       ELSE IF ContainsAny(t, { <<"s", "u", "p", "r", "e", "m", "e", " ", "c", "o", "u", "r", "t">>, <<"c", "o", "u", "n", "t", "y", " ", "o", "f">>, <<"i", "n", "d", "e", "x", " ", "n", "o">>, <<"i", "n", "d", "e", "x", " ", "n", "u", "m", "b", "e", "r">>,
                                <<"n", "o", "t", "i", "c", "e", " ", "o", "f", " ", "m", "o", "t", "i", "o", "n">>, <<"t", "o", " ", "r", "e", "s", "t", "o", "r", "e">>, <<"a", "f", "f", "i", "r", "m", "a", "t", "i", "o", "n", " ", "i", "n", " ", "s", "u", "p", "p", "o", "r", "t">>,
                                <<"a", "f", "f", "i", "d", "a", "v", "i", "t", " ", "o", "f", " ", "s", "e", "r", "v", "i", "c", "e">>, <<"c", " ", "o", " ", "u", " ", "n", " ", "s", " ", "e", " ", "l", " ", "o", " ", "r", " ", "s">>, <<"c", "o", "u", "n", "s", "e", "l", "o", "r", "s", ":">>,
                                <<"p", "l", "a", "i", "n", "t", "i", "f", "f">>, <<"d", "e", "f", "e", "n", "d", "a", "n", "t">>, <<"-", "a", "g", "a", "i", "n", "s", "t", "-">>, <<"a", "g", "a", "i", "n", "s", "t">> })
            THEN "caption"
       ELSE IF ContainsAny(t, { <<"p", "l", "e", "a", "s", "e", " ", "t", "a", "k", "e", " ", "n", "o", "t", "i", "c", "e">>, <<"t", "a", "k", "e", " ", "f", "u", "r", "t", "h", "e", "r", " ", "n", "o", "t", "i", "c", "e">>, <<"f", "o", "r", " ", "a", "n", " ", "o", "r", "d", "e", "r">> })
            THEN "motion_notice"
       ELSE IF /\ ContainsAny(t, { <<"a", "t", "t", "o", "r", "n", "e", "y", "s", " ", "f", "o", "r">>, <<"a", "t", "t", "o", "r", "n", "e", "y", " ", "f", "o", "r">>, <<"l", "a", "w", " ", "f", "i", "r", "m">>, <<"e", "s", "q", ".">>, <<"p", "l", "l", "c">>, <<"p", ".", "c", ".">> })
               /\ \E i \in DOMAIN t : t[i] \in Digit
            THEN "attorney_signature"
       ELSE IF startswith(t, <<"t", "o", ":">>) \/ (Len(t) < 5 /\ Contains(t, <<"t", "o">>)) THEN "to_section"
       ELSE IF ContainsAny(t, { <<"a", "f", "f", "i", "r", "m", "s", " ", "t", "h", "e", " ", "f", "o", "l", "l", "o", "w", "i", "n", "g">>, <<"r", "e", "s", "p", "e", "c", "t", "f", "u", "l", "l", "y", " ", "s", "u", "b", "m", "i", "t", "t", "e", "d">>,
                                <<"i", "t", " ", "i", "s", " ", "r", "e", "s", "p", "e", "c", "t", "f", "u", "l", "l", "y">>, <<"w", "h", "e", "r", "e", "f", "o", "r", "e">> })
            THEN "affirmation"
       ELSE IF ContainsAny(t, { <<"d", "u", "l", "y", " ", "s", "w", "o", "r", "n">>, <<"b", "e", "i", "n", "g", " ", "d", "u", "l", "y", " ", "s", "w", "o", "r", "n">>, <<"u", "n", "d", "e", "r", " ", "t", "h", "e", " ", "p", "e", "n", "a", "l", "t", "i", "e", "s", " ", "o", "f", " ", "p", "e", "r", "j", "u", "r", "y">> })
            THEN "affidavit"
       ELSE IF /\ ContainsAny(t, { <<"s", "w", "o", "r", "n", " ", "t", "o", " ", "b", "e", "f", "o", "r", "e", " ", "m", "e">>, <<"n", "o", "t", "a", "r", "y", " ", "p", "u", "b", "l", "i", "c">>, <<"s", "t", "a", "t", "e", " ", "o", "f", " ">>, <<"c", "o", "u", "n", "t", "y", " ", "o", "f", " ">> })
               /\ Len(t) < 120
            THEN "notary"
       ELSE "body"

is_signature_like(raw) ==
    Contains(raw, <<"_", "_", "_", "_">>) \/ (Len(strip(raw)) < 5 /\ Contains(raw, <<"_">>))

is_line_like(raw) ==
    LET t == strip(raw)
    IN /\ Len(t) >= 10
       /\ endswith(t, <<"X">>)
       /\ \A i \in 1..(Len(t) - 1) : t[i] \in {" ", "-", "_", ".", "=", "\t", "X"}

\* The entry _structure_from_doc_safe appends for one paragraph
StructureOf(para) ==
    LET t == strip(para.text)
    IN IF t = <<>> /\ para.border
       THEN [section_type |-> "separator", block_kind |-> "section_underline"]
       ELSE LET kind == IF is_signature_like(t) THEN "signature_line"
                        ELSE IF is_line_like(t) THEN "line" ELSE "paragraph"
            IN [section_type |-> infer_section_type_from_text(t, kind), block_kind |-> kind]

\* The paragraph texts of the documents given to the validator, one at least
\* for each outcome of the re-parse used below
DocTexts ==
    { <<>>, <<"S", "U", "P", "R", "E", "M", "E", " ", "C", "O", "U", "R", "T", " ", "O", "F", " ", "T", "H", "E", " ", "S", "T", "A", "T", "E", " ", "O", "F", " ", "N", "E", "W", " ", "Y", "O", "R", "K">>, <<"T", "h", "e", " ", "p", "r", "e", "m", "i", "s", "e", "s", " ", "w", "e", "r", "e", " ", "u", "n", "s", "a", "f", "e", ".">>,
      <<"T", "O", ":", " ", "T", "h", "e", " ", "C", "l", "e", "r", "k">>, <<"-", "-", "-", "-", "-", "-", "-", "-", "-", "-", "-", "-", "-", "-", "-", "-", "-", "-", "-", "-", "-", "-", "-", "X">>, <<"_", "_", "_", "_", "_", "_", "_", "_", "_", "_", "_", "_", "_", "_", "_", "_", "_", "_", "_", "_">> }

\* A border is told apart by the re-parse on an empty paragraph only
Paragraphs == { p \in [text : DocTexts, border : BOOLEAN] : p.border => p.text = <<>> }

structure_from_doc_safe(d) ==
    LET n == IF Len(d) < max_paragraphs THEN Len(d) ELSE max_paragraphs
    IN [i \in 1..n |-> StructureOf(d[i])]

\* sample_types[i] if i < len(sample_types) else None   (i 0-based)
TypeAt(types, i) == IF i < Len(types) THEN types[i + 1] ELSE PyNone

\* Mutant: only the positions both sequences have are compared.
Diff_CommonPositions(sample_types, output_types) ==
    LET n == IF Len(sample_types) < Len(output_types) THEN Len(sample_types) ELSE Len(output_types)
        F[k \in 0..n] ==
            IF k = 0 THEN <<>>
            ELSE IF sample_types[k] # output_types[k]
                 THEN Append(F[k - 1], [index |-> k - 1, sample_type |-> sample_types[k],
                                        output_type |-> output_types[k]])
                 ELSE F[k - 1]
    IN F[n]

\* The loop "for i in range(max(len(sample_types), len(output_types)))"
Diff(sample_types, output_types) ==
    LET n == IF Len(sample_types) > Len(output_types) THEN Len(sample_types) ELSE Len(output_types)
        F[k \in 0..n] ==
            IF k = 0 THEN <<>>
            ELSE LET st == TypeAt(sample_types, k - 1)
                     ot == TypeAt(output_types, k - 1)
                 IN IF st # ot
                    THEN Append(F[k - 1], [index |-> k - 1, sample_type |-> st, output_type |-> ot])
                    ELSE F[k - 1]
    IN F[n]

\* The report returned, without its message.  The structure of the output
\* document is extracted once, as the code does, and the report is built
\* from that value.
validate_against_sample(output_doc, sample_structure) ==
    LET Report(output_struct) ==
            LET sample_types == [i \in DOMAIN sample_structure |-> sample_structure[i].section_type]
                output_types == [i \in DOMAIN output_struct |-> output_struct[i].section_type]
                same_count == Len(output_struct) = Len(sample_structure)
                diff == Diff(sample_types, output_types)
                same_order == Len(diff) = 0 /\ same_count
            IN [match |-> same_order,
                same_section_order |-> same_order,
                same_block_count |-> same_count,
                diff |-> diff,
                sample_slot_count |-> Len(sample_structure),
                output_slot_count |-> Len(output_struct)]
    IN CHOOSE r \in { Report(os) : os \in {structure_from_doc_safe(output_doc)} } : TRUE

----------------------------------------------------------------------------
(* Specification of the validator: one call of validate_against_sample on  *)
(* a document and a sample structure                                        *)

ValidatorSectionTypes == {"body", "caption", "separator", "to_section"}

InitValidator ==
    /\ template_structure \in SeqsUpTo([section_type : ValidatorSectionTypes], MaxSlots)
    /\ doc \in SeqsUpTo(Paragraphs, MaxBlocks)
    /\ validation = Idle
    /\ blocks = Idle /\ use_table = Idle /\ block_idx = Idle /\ seen = Idle
    /\ pc = "validate"
    /\ OnlyRenderer

Validate ==
    /\ pc = "validate"
    /\ validation' = validate_against_sample(doc, template_structure)
    /\ pc' = "validated"
    /\ UNCHANGED <<template_structure, blocks, use_table, doc, block_idx, seen, restOfRenderer>>

NextValidator == Validate

SpecValidator == InitValidator /\ [][NextValidator]_vars

----------------------------------------------------------------------------
(* Properties of the validator *)

SampleTypes == [i \in DOMAIN template_structure |-> template_structure[i].section_type]
OutputTypes == [i \in DOMAIN doc |-> StructureOf(doc[i]).section_type]

\* The 0-based positions, over the longer sequence, at which the two types
\* differ or one side is missing
DifferingPositions(st, ot) ==
    { p \in 0..((IF Len(st) > Len(ot) THEN Len(st) ELSE Len(ot)) - 1) :
        \/ p >= Len(st)
        \/ p >= Len(ot)
        \/ st[p + 1] # ot[p + 1] }

PositionalDiff(v, st, ot) ==
    /\ { v.diff[k].index : k \in DOMAIN v.diff } = DifferingPositions(st, ot)
    /\ \A k \in DOMAIN v.diff :
          /\ k > 1 => v.diff[k - 1].index < v.diff[k].index
          /\ v.diff[k].sample_type = TypeAt(st, v.diff[k].index)
          /\ v.diff[k].output_type = TypeAt(ot, v.diff[k].index)
    /\ v.same_block_count <=> Len(st) = Len(ot)
    /\ v.match <=> (v.diff = <<>> /\ Len(st) = Len(ot))
    /\ v.same_section_order <=> (v.diff = <<>> /\ Len(st) = Len(ot))
    /\ v.sample_slot_count = Len(st)
    /\ v.output_slot_count = Len(ot)

\* C12: diff lists exactly the differing positions in ascending order, each
\* with the two types (null for a missing side); same_block_count tells
\* whether the lengths are equal; match and same_section_order tell whether
\* diff is empty and the lengths are equal; the two counts are the lengths.
C12_PositionalDiff ==
    pc = "validated" =>
        \A st \in {SampleTypes} : \A ot \in {OutputTypes} :
            PositionalDiff(validation, st, ot)

C12_Witness ==
    /\ pc = "validated"
    /\ Len(template_structure) = 2
    /\ Len(doc) = 1
    /\ Len(validation.diff) = 2
    /\ validation.diff[1].output_type = "separator"
    /\ validation.diff[2].output_type = PyNone
    /\ ~validation.match

----------------------------------------------------------------------------
(* The renderer: the slot-fill path of inject_blocks                       *)
(* src/formatting/utils/formatter.py                                       *)
(* A document body is the sequence of its paragraphs, each with its text   *)
(* and whether it has a bottom border; run and paragraph formatting, which *)
(* the re-parse of the validator does not read, is left out.               *)

CHECKBOX_UNCHECKED == "<U+2610>"
CHECKBOX_CHECKED == "<U+2611>"

\* The end of the run of whitespace that starts at position i
SkipSpace(t, i) ==
    IF i > Len(t) THEN i
    ELSE CHOOSE j \in i..(Len(t) + 1) :
             /\ j = Len(t) + 1 \/ t[j] \notin WhiteSpace
             /\ \A k \in i..(j - 1) : t[k] \in WhiteSpace

\* The position of the "]" that ends a match of \[\s*[xX]\s*\] starting at
\* position i, or 0 when there is no match at i
CheckedEnd(t, i) ==
    IF t[i] # "[" THEN 0
    ELSE LET j == SkipSpace(t, i + 1)
             k == SkipSpace(t, j + 1)
         IN IF j <= Len(t) /\ t[j] \in {"x", "X"} /\ k <= Len(t) /\ t[k] = "]" THEN k ELSE 0

\* The same for \[\s*\]
UncheckedEnd(t, i) ==
    IF t[i] # "[" THEN 0
    ELSE LET k == SkipSpace(t, i + 1)
         IN IF k <= Len(t) /\ t[k] = "]" THEN k ELSE 0

\* re.sub(pattern, box + " ", text) for a pattern whose matches begin with
\* "[", end with "]" and hold no other bracket; ends[i] is the end of the
\* match that starts at i, or 0.  The first two characters of a match
\* become the box and a space, its other characters go.
SubBox(t, ends, box) ==
    LET marked == [i \in DOMAIN t |->
                     IF ends[i] > 0 THEN [c |-> box, keep |-> TRUE]
                     ELSE IF i > 1 /\ ends[i - 1] > 0 THEN [c |-> " ", keep |-> TRUE]
                     ELSE [c |-> t[i], keep |-> ~\E b \in 1..(i - 2) : ends[b] >= i]]
        kept == SelectSeq(marked, LAMBDA m : m.keep)
    IN [i \in DOMAIN kept |-> kept[i].c]

SubChecked(t) == SubBox(t, [i \in DOMAIN t |-> CheckedEnd(t, i)], CHECKBOX_CHECKED)
SubUnchecked(t) == SubBox(t, [i \in DOMAIN t |-> UncheckedEnd(t, i)], CHECKBOX_UNCHECKED)

render_checkboxes(raw) == IF raw = <<>> THEN raw ELSE SubUnchecked(SubChecked(raw))

\* The text of the runs added for the segments of
\* parse_inline_formatting_markers: the text without the tokens "**", "__"
\* and "*" that re.split(r"(\*\*|__|\*)", text) takes out.  Of a run of
\* underscores the pairs go, so the last one stays when the run is odd.
SegmentsText(t) ==
    LET RunStart(i) == CHOOSE b \in 1..i :
                           /\ \A k \in b..i : t[k] = "_"
                           /\ b = 1 \/ t[b - 1] # "_"
        marked == [i \in DOMAIN t |->
                     [c |-> t[i],
                      keep |-> /\ t[i] # "*"
                               /\ t[i] = "_" =>
                                     /\ i = Len(t) \/ t[i + 1] # "_"
                                     /\ (i - RunStart(i) + 1) % 2 = 1]]
        kept == SelectSeq(marked, LAMBDA m : m.keep)
    IN [i \in DOMAIN kept |-> kept[i].c]

\* str.rstrip(chars)
RECURSIVE rstrip(_, _)
rstrip(t, chars) ==
    IF t # <<>> /\ t[Len(t)] \in chars THEN rstrip(SubSeq(t, 1, Len(t) - 1), chars) ELSE t

looks_like_caption_separator(line_text) ==
    IF line_text = <<>> \/ Len(strip(line_text)) < 5 THEN FALSE
    ELSE LET t == strip(line_text)
             core == rstrip(rstrip(t, {"X", "x"}), WhiteSpace)
         IN IF core = <<>> THEN TRUE
            ELSE IF /\ \A i \in DOMAIN core : core[i] \in {" ", "_", "\t"}
                    /\ \A i \in DOMAIN t : t[i] # "-"
                    /\ \A i \in DOMAIN t : ToUpper(t[i]) # "X"
                 THEN FALSE
                 ELSE Len(core) >= 3 /\ \A i \in DOMAIN core : core[i] \in {"-", "_", "\t", " "}

looks_like_attorney_verification_heading(raw) ==
    IF raw = <<>> \/ Len(strip(raw)) < 5 THEN FALSE
    ELSE LET t == lower(strip(raw))
         IN Contains(t, <<"a", "t", "t", "o", "r", "n", "e", "y">>) /\ Contains(t, <<"v", "e", "r", "i", "f", "i", "c", "a", "t", "i", "o", "n">>) /\ Len(t) < 80

\* doc.add_paragraph(text)
add_paragraph(d, t) == Append(d, [text |-> t, border |-> FALSE])

\* doc.add_page_break(): a paragraph that holds only the break
add_page_break(d) == Append(d, [text |-> <<>>, border |-> FALSE])

\* A paragraph with a non-breaking space and a bottom border
add_full_width_separator(d) == Append(d, [text |-> <<NBSP>>, border |-> TRUE])

\* The empty paragraph with a bottom border of a section_underline slot
add_section_underline(d) == Append(d, [text |-> <<>>, border |-> TRUE])

\* Mutant: a content slot is rendered even when its text was seen before.
AlreadySeen_Never(sn, slot_text) == FALSE

\* "if slot_text in seen: continue"
AlreadySeen(sn, slot_text) == slot_text \in sn

\* One iteration of the loop of the slot-fill path: the document and the
\* set seen after slot spec was filled with block
SlotFill(d, sn, spec, block) ==
    LET slot_text == strip(block[2])
        template_text == strip(spec.template_text)
        d1 == IF spec.page_break_before THEN add_page_break(d)
              ELSE IF looks_like_attorney_verification_heading(slot_text) THEN add_page_break(d)
              ELSE d
    IN  IF spec.block_kind = "line"
        THEN IF strip(IF slot_text # <<>> THEN slot_text ELSE template_text) # <<>>
             THEN IF template_text # <<>>
                  THEN IF looks_like_caption_separator(template_text)
                       THEN [doc |-> add_full_width_separator(d1), seen |-> sn]
                       ELSE [doc |-> add_paragraph(d1, template_text), seen |-> sn]
                  ELSE [doc |-> d1, seen |-> sn]
             ELSE [doc |-> add_full_width_separator(d1), seen |-> sn]
        ELSE IF spec.block_kind = "section_underline"
        THEN [doc |-> add_section_underline(d1), seen |-> sn]
        ELSE IF spec.block_kind = "signature_line"
        THEN IF template_text # <<>>
             THEN [doc |-> add_paragraph(d1, template_text), seen |-> sn]
             ELSE [doc |-> d1, seen |-> sn]
        ELSE IF slot_text = <<>>
        THEN [doc |-> d1, seen |-> sn]
        ELSE IF AlreadySeen(sn, slot_text)
        THEN [doc |-> d1, seen |-> sn]
        ELSE [doc |-> add_paragraph(d1, SegmentsText(render_checkboxes(slot_text))),
              seen |-> sn \cup {slot_text}]

\* is_separator of trim_trailing_separators
is_separator(raw) ==
    LET t == strip(raw)
    IN startswith(t, <<"-">>) \/ startswith(t, <<"=">>) \/ startswith(t, <<"_">>)

\* doc.paragraphs: the paragraphs of the body, without those in table cells
IsCell(para) == "cell" \in DOMAIN para
LastBody(d) == IF \E i \in DOMAIN d : ~IsCell(d[i])
               THEN CHOOSE i \in DOMAIN d : ~IsCell(d[i]) /\ \A j \in DOMAIN d : j > i => IsCell(d[j])
               ELSE 0
RemoveAt(d, i) == SubSeq(d, 1, i - 1) \o SubSeq(d, i + 1, Len(d))

RECURSIVE trim_trailing_separators(_)
trim_trailing_separators(d) ==
    IF LastBody(d) > 0 /\ is_separator(d[LastBody(d)].text)
    THEN trim_trailing_separators(RemoveAt(d, LastBody(d)))
    ELSE d

is_separator_noise(raw) ==
    IF raw = <<>> \/ strip(raw) = <<>> THEN TRUE
    ELSE LET t0 == strip(raw)
             t == IF t0[Len(t0)] \in {"X", "x"} THEN strip(SubSeq(t0, 1, Len(t0) - 1)) ELSE t0
         IN \/ \A i \in DOMAIN t : t[i] \in {" ", "_", "-", ".", "=", NBSP, "\t"}
            \/ (t # <<>> /\ \A i \in DOMAIN t : t[i] \in WhiteSpace \cup {"-", ".", "_", "="})

is_empty_or_noise_paragraph(para) ==
    IF para.border THEN FALSE
    ELSE IF strip(para.text) = <<>> THEN TRUE
    ELSE is_separator_noise(strip(para.text))

RECURSIVE remove_trailing_empty_and_noise(_)
remove_trailing_empty_and_noise(d) ==
    IF d # <<>> /\ is_empty_or_noise_paragraph(d[Len(d)])
    THEN remove_trailing_empty_and_noise(SubSeq(d, 1, Len(d) - 1))
    ELSE d

----------------------------------------------------------------------------
(* Specification of the round trip: a template's own slots, each filled    *)
(* with its own sample text, are rendered into the cleared document and    *)
(* the result is validated against the template's structure                *)

\* Texts of the paragraphs of a template
TemplateTexts ==
    { <<"S", "U", "P", "R", "E", "M", "E", " ", "C", "O", "U", "R", "T", " ", "O", "F", " ", "T", "H", "E", " ", "S", "T", "A", "T", "E", " ", "O", "F", " ", "N", "E", "W", " ", "Y", "O", "R", "K">>,
      <<"T", "h", "e", " ", "p", "r", "e", "m", "i", "s", "e", "s", " ", "w", "e", "r", "e", " ", "u", "n", "s", "a", "f", "e", ".">>,
      <<"-", "-", "-", "-", "-", "-", "-", "-", "-", "-", "-", "-", "-", "-", "-", "-", "-", "-", "-", "-", "-", "-", "-", "X">>,
      <<"_", "_", "_", "_", "_", "_", "_", "_", "_", "_", "_", "_", "_", "_", "_", "_", "_", "_", "_", "_">>,
      <<"A", "T", "T", "O", "R", "N", "E", "Y", "'", "S", " ", "V", "E", "R", "I", "F", "I", "C", "A", "T", "I", "O", "N">>,
      <<"[", "x", "]", " ", "*", "*", "S", "e", "r", "v", "e", "d", "*", "*", " ", "b", "y", " ", "m", "a", "i", "l">> }

\* Paragraphs of a template: one with text, or an empty one with a border
TemplateParagraphs ==
    { p \in [text : TemplateTexts \cup {<<>>}, border : BOOLEAN] : p.border <=> p.text = <<>> }

\* The slot of a template paragraph: the kind and section type that the
\* re-parse gives the paragraph, its text as sample text, no page break
extract_template_structure(template) ==
    [i \in DOMAIN template |->
        LET s == StructureOf(template[i])
        IN [style |-> "Normal",
            section_type |-> s.section_type,
            block_kind |-> s.block_kind,
            page_break_before |-> FALSE,
            template_text |-> template[i].text]]

\* Each slot filled with its own sample text
OwnBlocks(structure) == [i \in DOMAIN structure |-> <<structure[i].style, structure[i].template_text>>]

InitRoundTrip ==
    /\ \E template \in SeqsUpTo(TemplateParagraphs, MaxSlots) :
          /\ template # <<>>
          /\ template_structure = extract_template_structure(template)
    /\ blocks = OwnBlocks(template_structure)
    /\ use_table = FALSE
    /\ doc = <<>>
    /\ block_idx = 0
    /\ seen = {}
    /\ validation = Idle
    /\ pc = "inject"
    /\ OnlyRenderer

\* One iteration of "for i in range(len(template_structure))"
InjectSlot ==
    /\ pc = "inject"
    /\ template_structure # <<>>
    /\ Len(blocks) = Len(template_structure)
    /\ block_idx < Len(template_structure)
    /\ \E r \in {SlotFill(doc, seen, template_structure[block_idx + 1], blocks[block_idx + 1])} :
          /\ doc' = r.doc
          /\ seen' = r.seen
    /\ block_idx' = block_idx + 1
    /\ UNCHANGED <<pc, template_structure, blocks, use_table, validation, restOfRenderer>>

\* The end of the slot-fill path: trim_trailing_separators(doc); return
InjectReturn ==
    /\ pc = "inject"
    /\ template_structure # <<>>
    /\ Len(blocks) = Len(template_structure)
    /\ block_idx = Len(template_structure)
    /\ doc' = trim_trailing_separators(doc)
    /\ pc' = "remove_trailing"
    /\ UNCHANGED <<template_structure, blocks, use_table, block_idx, seen, validation, restOfRenderer>>

\* remove_trailing_empty_and_noise(template_doc) of
\* build_document_from_structural_output
RemoveTrailing ==
    /\ pc = "remove_trailing"
    /\ doc' = remove_trailing_empty_and_noise(doc)
    /\ pc' = "validate"
    /\ UNCHANGED <<template_structure, blocks, use_table, block_idx, seen, validation, restOfRenderer>>

NextRoundTrip == InjectSlot \/ InjectReturn \/ RemoveTrailing \/ Validate

SpecRoundTrip == InitRoundTrip /\ [][NextRoundTrip]_vars

----------------------------------------------------------------------------
(* Properties of the round trip *)

\* C13: a template's own slot sequence, rendered and validated against the
\* template, gives match = true and an empty diff.
C13_RoundTripMatches ==
    pc = "validated" => validation.match /\ validation.diff = <<>>

\* A round trip that does match: no repeated text, no trailing separator
C13_SomeRoundTripMatches ==
    pc = "validated" /\ Len(template_structure) = 2 /\ validation.match

\* The repeated paragraph is rendered once
C13_RepeatedParagraph ==
    /\ pc = "validated"
    /\ Len(template_structure) = 2
    /\ template_structure[1] = template_structure[2]
    /\ template_structure[1].block_kind = "paragraph"
    /\ Len(doc) = 1
    /\ ~validation.same_block_count
    /\ validation.diff = <<[index |-> 1, sample_type |-> template_structure[2].section_type, output_type |-> PyNone]>>

----------------------------------------------------------------------------
(* The renderer: the fallback path of inject_blocks, taken when there is   *)
(* no template structure of the length of blocks.  The style map has no    *)
(* numbered style and there are no line samples and no section heading     *)
(* samples, so a block is never split into numbered paragraphs and no      *)
(* section-start page break is added.  A paragraph added to a cell of the  *)
(* caption table carries the cell in the field cell.                       *)

MIN_DEDUP_LEN == 80

\* U+2014 (em dash), one character
EMDASH == "<U+2014>"

DEFAULT_SIGNATURE_LINE == <<"_", "_", "_", "_", "_", "_", "_", "_", "_", "_", "_", "_", "_", "_", "_", "_", "_", "_", "_", "_", "_", "_", "_", "_", "_">>
DEFAULT_LINE == <<"-", "-", "-", "-", "-", "-", "-", "-", "-", "-", "-", "-", "-", "-", "-", "-", "-", "-", "-", "-", "-", "-", "-", "-", "-", "-", "-", "-", "-", "-", "-", "-", "-", "-", "-", "-", "-", "-", "-", "-", "-", "-", "-", "-", "-", "-", "-", "-", "-", "-", "-", "-", "-", "-", "-", "-", "-", "-", "-", "-", "-", "-", "-", "-", "-", "-", "-", "-", "-", "-", "X">>

BODY_START_PHRASES ==
    { <<"p", "l", "e", "a", "s", "e", " ", "t", "a", "k", "e", " ", "n", "o", "t", "i", "c", "e">>, <<"t", "a", "k", "e", " ", "f", "u", "r", "t", "h", "e", "r", " ", "n", "o", "t", "i", "c", "e">>, <<"d", "a", "t", "e", "d", ":">>, <<"a", "f", "f", "i", "r", "m", "s", " ", "t", "h", "e", " ", "f", "o", "l", "l", "o", "w", "i", "n", "g">>,
      <<"u", "n", "d", "e", "r", " ", "t", "h", "e", " ", "p", "e", "n", "a", "l", "t", "i", "e", "s", " ", "o", "f", " ", "p", "e", "r", "j", "u", "r", "y">>, <<"b", "e", "i", "n", "g", " ", "d", "u", "l", "y", " ", "s", "w", "o", "r", "n">>, <<"d", "u", "l", "y", " ", "s", "w", "o", "r", "n", ",", " ", "s", "a", "y", "s">> }

RIGHT_CAPTION_PHRASES ==
    { <<"i", "n", "d", "e", "x", " ", "n", "o">>, <<"i", "n", "d", "e", "x", " ", "n", "u", "m", "b", "e", "r">>, <<"n", "o", "t", "i", "c", "e", " ", "o", "f", " ", "m", "o", "t", "i", "o", "n">>, <<"t", "o", " ", "r", "e", "s", "t", "o", "r", "e">>,
      <<"a", "f", "f", "i", "r", "m", "a", "t", "i", "o", "n", " ", "i", "n", " ", "s", "u", "p", "p", "o", "r", "t">>, <<"a", "f", "f", "i", "d", "a", "v", "i", "t", " ", "o", "f", " ", "s", "e", "r", "v", "i", "c", "e">>, <<"m", "e", "m", "o", "r", "a", "n", "d", "u", "m", " ", "o", "f", " ", "l", "a", "w">> }

NEW_DOCUMENT_START_PHRASES ==
    { <<"s", "u", "p", "r", "e", "m", "e", " ", "c", "o", "u", "r", "t", " ", "o", "f", " ", "t", "h", "e", " ", "s", "t", "a", "t", "e", " ", "o", "f", " ", "n", "e", "w", " ", "y", "o", "r", "k">>, <<"s", "u", "p", "r", "e", "m", "e", " ", "c", "o", "u", "r", "t", " ", "o", "f", " ", "n", "e", "w", " ", "y", "o", "r", "k">> }

\* re.sub(r"\s+", " ", text).strip()
CollapseSpace(t) ==
    LET marked == [i \in DOMAIN t |->
                     [c |-> IF t[i] \in WhiteSpace THEN " " ELSE t[i],
                      keep |-> t[i] \notin WhiteSpace \/ i = 1 \/ t[i - 1] \notin WhiteSpace]]
        kept == SelectSeq(marked, LAMBDA m : m.keep)
    IN [i \in DOMAIN kept |-> kept[i].c]

normalize_space(t) == strip(CollapseSpace(t))

\* The 1-based indexes at which a segment starts
segment_starts(bs) ==
    { 1 } \cup { i \in 2..Len(bs) :
                    LET t == lower(strip(bs[i][2]))
                    IN /\ t # <<>>
                       /\ \E phrase \in NEW_DOCUMENT_START_PHRASES :
                             \/ startswith(t, phrase)
                             \/ t = strip(phrase)
                             \/ Contains(Prefix(t, 80), phrase) }

\* The segments in their order, each the blocks from its start to the next
split_into_document_segments(bs) ==
    IF bs = <<>> THEN <<>>
    ELSE LET starts == segment_starts(bs)
             StartOf[j \in 1..Cardinality(starts)] ==
                 CHOOSE i \in starts : Cardinality({ k \in starts : k < i }) = j - 1
         IN [j \in 1..Cardinality(starts) |->
                SubSeq(bs, StartOf[j],
                       IF j < Cardinality(starts) THEN StartOf[j + 1] - 1 ELSE Len(bs))]

IsBodyStart(block) ==
    LET t == lower(strip(block[2]))
    IN t # <<>> /\ \E phrase \in BODY_START_PHRASES : Contains(t, phrase) \/ startswith(t, phrase)

IsRightCaption(block) ==
    LET t == lower(strip(block[2]))
    IN (\E p \in RIGHT_CAPTION_PHRASES : Contains(t, p)) \/ t = <<"t", "o", " ", "r", "e", "s", "t", "o", "r", "e">>

\* (caption_left, caption_right, body_blocks)
split_caption_body(bs) ==
    IF \A i \in DOMAIN bs : ~IsBodyStart(bs[i])
    THEN [left |-> <<>>, right |-> <<>>, body |-> bs]
    ELSE LET body_start_idx == CHOOSE i \in DOMAIN bs :
                                   IsBodyStart(bs[i]) /\ \A j \in 1..(i - 1) : ~IsBodyStart(bs[j])
             caption_blocks == SubSeq(bs, 1, body_start_idx - 1)
         IN [left |-> SelectSeq(caption_blocks, LAMBDA b : ~IsRightCaption(b)),
             right |-> SelectSeq(caption_blocks, IsRightCaption),
             body |-> SubSeq(bs, body_start_idx, Len(bs))]

is_underscore_name_line(line_text) ==
    IF line_text = <<>> \/ Len(strip(line_text)) < 3 THEN FALSE
    ELSE \A i \in DOMAIN strip(line_text) : strip(line_text)[i] \in {" ", "_", NBSP, "\t"}

PartyRoleWords == { <<"p", "l", "a", "i", "n", "t", "i", "f", "f">>, <<"d", "e", "f", "e", "n", "d", "a", "n", "t">>, <<"c", "l", "a", "i", "m", "a", "n", "t">>, <<"r", "e", "s", "p", "o", "n", "d", "e", "n", "t">> }

\* re.match(r"^(Plaintiff|Defendant|Claimant|Respondent)\,?\.?$", text, re.I)
IsPartyRoleOnly(t) ==
    \E w \in PartyRoleWords : lower(t) \in { w, w \o <<",">>, w \o <<".">>, w \o <<",", ".">> }

\* <<underscore_line, name_part>>, or <<>> for (None, None)
split_underscore_line_and_name(raw) ==
    IF raw = <<>> \/ \A i \in DOMAIN raw : raw[i] # "\n" THEN <<>>
    ELSE LET nl == CHOOSE i \in DOMAIN raw : raw[i] = "\n" /\ \A j \in 1..(i - 1) : raw[j] # "\n"
             first_line == strip(SubSeq(raw, 1, nl - 1))
             rest == strip(SubSeq(raw, nl + 1, Len(raw)))
         IN IF rest = <<>> \/ ~is_underscore_name_line(first_line) \/ Len(first_line) < 8 THEN <<>>
            ELSE IF endswith(rest, <<",">>) \/ IsPartyRoleOnly(rest) THEN <<first_line, rest>>
            ELSE IF Len(rest) <= 70 /\ rest[1] \in Upper THEN <<first_line, rest>>
            ELSE <<>>

looks_like_index_no(raw) ==
    IF raw = <<>> \/ Len(strip(raw)) < 5 THEN FALSE
    ELSE LET t == lower(strip(raw))
         IN \/ startswith(t, <<"i", "n", "d", "e", "x", " ", "n", "o">>)
            \/ startswith(t, <<"i", "n", "d", "e", "x", " ", "n", "u", "m", "b", "e", "r">>)
            \/ /\ Contains(t, <<"i", "n", "d", "e", "x", " ", "n", "o">>)
               /\ \/ Contains(t, <<"e", "f">>)
                  \/ Contains(t, <<"-", "2", "0">>)
                  \/ \E i \in 1..(Len(t) - 1) : t[i] \in Digit /\ t[i + 1] \in Digit

last_paragraph_looks_like_caption_line(d) ==
    IF LastBody(d) = 0 THEN FALSE
    ELSE LET t == strip(d[LastBody(d)].text)
         IN IF t = <<>> \/ Len(t) > 80 THEN FALSE
            ELSE IF endswith(t, <<",">>) /\ Len(t) <= 60 THEN TRUE
            ELSE IsPartyRoleOnly(t)

\* cell.add_paragraph(text)
add_cell_paragraph(d, c, t) == Append(d, [text |-> t, border |-> FALSE, cell |-> c])

\* paragraph.add_run("\t"); paragraph.add_run(index_text) on the last
\* paragraph of the body
append_index_no_to_paragraph(d, index_text) ==
    IF index_text = <<>> THEN d
    ELSE [d EXCEPT ![LastBody(d)].text = @ \o <<"\t">> \o index_text]

\* One paragraph per block of the caption in cell c; nothing is compared
\* with the texts rendered before
RECURSIVE render_caption_blocks_into_cell(_, _, _)
render_caption_blocks_into_cell(d, c, bs) ==
    IF bs = <<>> THEN d
    ELSE LET t == strip(bs[1][2])
             sp == split_underscore_line_and_name(t)
             d1 == IF sp # <<>> THEN add_cell_paragraph(d, c, sp[1]) ELSE d
             t1 == IF sp # <<>> THEN sp[2] ELSE t
         IN IF t = <<>> THEN render_caption_blocks_into_cell(d, c, Tail(bs))
            ELSE render_caption_blocks_into_cell(
                     add_cell_paragraph(d1, c, SegmentsText(render_checkboxes(t1))), c, Tail(bs))

\* The body of the loop over blocks_to_render after the check for a long
\* duplicate: what a block of type block_type and stripped text t adds
RenderContent(d, block_type, t) ==
    IF block_type = "page_break" THEN add_page_break(d)
    ELSE IF block_type = "signature_line"
    THEN IF t # <<>> /\ t \notin { <<"-", "-", "-">>, <<EMDASH>>, <<"-">> }
         THEN add_paragraph(d, DEFAULT_SIGNATURE_LINE \o <<" ", " ">> \o t)
         ELSE add_paragraph(d, DEFAULT_SIGNATURE_LINE)
    ELSE IF block_type = "section_underline" THEN add_section_underline(d)
    ELSE IF block_type = "line"
    THEN LET given == IF t # <<>> /\ (Contains(t, <<"b", "l", "o", "c", "k", "_", "t", "y", "p", "e">>) \/ Contains(t, <<"t", "e", "x", "t", " ", "f", "i", "e", "l", "d">>))
                      THEN <<>> ELSE t
             line_text == IF given = <<>> THEN DEFAULT_LINE ELSE given
         IN IF looks_like_caption_separator(line_text)
            THEN add_full_width_separator(d)
            ELSE add_paragraph(d, line_text)
    ELSE IF t = <<>> THEN d
    ELSE LET sp == split_underscore_line_and_name(t)
             d1 == IF sp # <<>> THEN add_paragraph(d, sp[1]) ELSE d
             t1 == IF sp # <<>> THEN sp[2] ELSE t
             d2 == IF LastBody(d1) > 0 /\ looks_like_attorney_verification_heading(t1)
                   THEN add_page_break(d1) ELSE d1
             t2 == render_checkboxes(t1)
         IN IF /\ looks_like_index_no(strip(t2))
               /\ LastBody(d2) > 0
               /\ last_paragraph_looks_like_caption_line(d2)
            THEN append_index_no_to_paragraph(d2, strip(t2))
            ELSE add_paragraph(d2, SegmentsText(t2))

\* One iteration of "for block_type, text in blocks_to_render"
RenderBlock(d, sn, block) ==
    LET t == strip(block[2])
        long == Len(t) >= MIN_DEDUP_LEN
    IN IF long /\ normalize_space(t) \in sn
       THEN [doc |-> d, seen |-> sn]
       ELSE [doc |-> RenderContent(d, block[1], t),
             seen |-> IF long THEN sn \cup {normalize_space(t)} ELSE sn]

RECURSIVE RenderBlocks(_, _, _)
RenderBlocks(d, sn, bs) ==
    IF bs = <<>> THEN [doc |-> d, seen |-> sn]
    ELSE LET r == RenderBlock(d, sn, bs[1])
         IN RenderBlocks(r.doc, r.seen, Tail(bs))

\* One iteration of "for seg_idx, segment in enumerate(segments)"
RenderSegmentOf(d, sn, segment, seg_idx, table) ==
    LET d0 == IF seg_idx > 0 THEN add_page_break(d) ELSE d
        cap == split_caption_body(segment)
        has_caption == cap.left # <<>> \/ cap.right # <<>>
    IN IF table /\ has_caption
       THEN RenderBlocks(
                render_caption_blocks_into_cell(
                    render_caption_blocks_into_cell(d0, "left", cap.left), "right", cap.right),
                sn, cap.body)
       ELSE RenderBlocks(d0, sn, IF has_caption THEN cap.left \o cap.right \o cap.body ELSE segment)

----------------------------------------------------------------------------
(* Specification of the fallback path: one call of inject_blocks on the    *)
(* cleared document with blocks and no template structure                  *)

MaxInjected == 3

LongParagraph == <<"T", "h", "e", " ", "d", "e", "f", "e", "n", "d", "a", "n", "t", " ", "f", "a", "i", "l", "e", "d", " ", "t", "o", " ", "m", "a", "i", "n", "t", "a", "i", "n", " ", "t", "h", "e", " ", "p", "r", "e", "m", "i", "s", "e", "s", " ", "i", "n", " ", "a", " ", "r", "e", "a", "s", "o", "n", "a", "b", "l", "y", " ", "s", "a", "f", "e", " ", "c", "o", "n", "d", "i", "t", "i", "o", "n", " ", "a", "t", " ", "a", "l", "l", " ", "t", "i", "m", "e", "s", ".">>
LongParagraphSpaced == <<"T", "h", "e", " ", "d", "e", "f", "e", "n", "d", "a", "n", "t", " ", " ", "f", "a", "i", "l", "e", "d", " ", "t", "o", " ", "m", "a", "i", "n", "t", "a", "i", "n", " ", "t", "h", "e", " ", "p", "r", "e", "m", "i", "s", "e", "s", " ", "i", "n", " ", "a", " ", "r", "e", "a", "s", "o", "n", "a", "b", "l", "y", " ", "s", "a", "f", "e", "\n", "c", "o", "n", "d", "i", "t", "i", "o", "n", " ", "a", "t", " ", "a", "l", "l", " ", "t", "i", "m", "e", "s", ".">>
BodyStartParagraph == <<"P", "L", "E", "A", "S", "E", " ", "T", "A", "K", "E", " ", "N", "O", "T", "I", "C", "E", " ", "t", "h", "a", "t", " ", "t", "h", "e", " ", "m", "o", "t", "i", "o", "n", " ", "i", "s", " ", "r", "e", "t", "u", "r", "n", "a", "b", "l", "e", ".">>
CourtHeading == <<"S", "U", "P", "R", "E", "M", "E", " ", "C", "O", "U", "R", "T", " ", "O", "F", " ", "T", "H", "E", " ", "S", "T", "A", "T", "E", " ", "O", "F", " ", "N", "E", "W", " ", "Y", "O", "R", "K">>

InjectedBlocks ==
    { <<"paragraph", LongParagraph>>, <<"paragraph", LongParagraphSpaced>>,
      <<"page_break", LongParagraph>>, <<"signature_line", LongParagraph>>,
      <<"paragraph", BodyStartParagraph>>, <<"heading", CourtHeading>>, <<"line", <<>> >> }

InitFallback ==
    /\ template_structure = <<>>
    /\ blocks \in SeqsUpTo(InjectedBlocks, MaxInjected)
    /\ use_table \in BOOLEAN
    /\ doc = <<>>
    /\ block_idx = 0
    /\ seen = {}
    /\ validation = Idle
    /\ pc = "inject"
    /\ OnlyRenderer

FallbackPath == ~(template_structure # <<>> /\ Len(blocks) = Len(template_structure))

RenderSegment ==
    /\ pc = "inject"
    /\ FallbackPath
    /\ block_idx < Len(split_into_document_segments(blocks))
    /\ \E r \in {RenderSegmentOf(doc, seen, split_into_document_segments(blocks)[block_idx + 1],
                                 block_idx, use_table)} :
          /\ doc' = r.doc
          /\ seen' = r.seen
    /\ block_idx' = block_idx + 1
    /\ UNCHANGED <<pc, template_structure, blocks, use_table, validation, restOfRenderer>>

\* The end of the fallback path: trim_trailing_separators(doc)
FallbackReturn ==
    /\ pc = "inject"
    /\ FallbackPath
    /\ block_idx = Len(split_into_document_segments(blocks))
    /\ doc' = trim_trailing_separators(doc)
    /\ pc' = "injected"
    /\ UNCHANGED <<template_structure, blocks, use_table, block_idx, seen, validation, restOfRenderer>>

NextFallback == RenderSegment \/ FallbackReturn

SpecFallback == InitFallback /\ [][NextFallback]_vars

----------------------------------------------------------------------------
(* Properties of the fallback path *)

IsLong(block) == Len(strip(block[2])) >= MIN_DEDUP_LEN

\* The number of rendered paragraphs, in the body or in a cell, that hold
\* the paragraph nz (compared after whitespace normalization)
Occurrences(nz) ==
    Cardinality({ i \in DOMAIN doc : Contains(normalize_space(doc[i].text), nz) })

GivenTwice(nz) ==
    \E i, j \in DOMAIN blocks :
        /\ i # j
        /\ IsLong(blocks[i]) /\ IsLong(blocks[j])
        /\ normalize_space(blocks[i][2]) = nz
        /\ normalize_space(blocks[j][2]) = nz

\* C14: a paragraph of at least 80 characters given twice (identical after
\* whitespace normalization) occurs exactly once in the rendered document,
\* wherever the copies sit and whatever their block types.
C14_OneOccurrence ==
    pc = "injected" =>
        \A nz \in {normalize_space(LongParagraph)} : GivenTwice(nz) => Occurrences(nz) = 1

\* The same, for copies of type paragraph rendered without the caption table
C14_OneOccurrenceInBody ==
    pc = "injected" /\ ~use_table /\ (\A i \in DOMAIN blocks : blocks[i][1] = "paragraph") =>
        \A nz \in {normalize_space(LongParagraph)} : GivenTwice(nz) => Occurrences(nz) = 1

\* Two copies that differ in whitespace only, rendered once in the body
C14_SuppressedInBody ==
    /\ pc = "injected"
    /\ ~use_table
    /\ blocks = << <<"paragraph", LongParagraph>>, <<"paragraph", LongParagraphSpaced>> >>
    /\ Len(doc) = 1

\* A copy in the caption table and a copy in the body, both rendered
C14_CaptionCopyRendered ==
    /\ pc = "injected"
    /\ use_table
    /\ blocks = << <<"paragraph", LongParagraph>>, <<"paragraph", BodyStartParagraph>>,
                   <<"paragraph", LongParagraph>> >>
    /\ Occurrences(normalize_space(LongParagraph)) = 2

----------------------------------------------------------------------------
(* The entry points of the backend                                         *)
(* src/formatting/backend.py                                               *)
(* Two invocations run interleaved, each with its own template stream and  *)
(* its own generated text; the files they write are shared.  An entry      *)
(* point is the sequence of its steps on documents: load (Document(...)),  *)
(* extract, clear, inject, trim, validate, save, unlink and preview.       *)
(* Segmentation by the language model, which touches no document, is left *)
(* out, and injection adds one paragraph for each block.                   *)

Invocations == {1, 2}

Step(op, target, path) == [op |-> op, target |-> target, path |-> path]

\* process_document: doc is extracted from, cleared, injected into, trimmed
\* and saved; a single-column copy of the template is saved to a temporary
\* file for the page images and removed again
process_document ==
    << Step("load", "doc", ""), Step("extract", "doc", ""),
       Step("load", "doc_for_images", ""), Step("save", "doc_for_images", "tmp"),
       Step("unlink", "doc_for_images", "tmp"),
       Step("clear", "doc", ""), Step("inject", "doc", ""), Step("trim", "doc", ""),
       Step("save", "doc", "output/formatted_output.docx"),
       Step("preview", "doc", "output/formatted_output.docx") >>

process_document_section_by_section ==
    << Step("load", "doc", ""), Step("extract", "doc", ""),
       Step("clear", "doc", ""), Step("inject", "doc", ""), Step("trim", "doc", ""),
       Step("save", "doc", "output/formatted_output_section_by_section.docx"),
       Step("preview", "doc", "output/formatted_output_section_by_section.docx") >>

\* clear, inject and trim are the steps of build_document_from_draft
process_document_draft_driven ==
    << Step("load", "doc", ""), Step("extract", "doc", ""),
       Step("clear", "doc", ""), Step("inject", "doc", ""), Step("trim", "doc", ""),
       Step("save", "doc", "output/formatted_draft_driven.docx"),
       Step("preview", "doc", "output/formatted_draft_driven.docx") >>

\* Mutant: the document is saved before the trailing noise is trimmed.
process_document_from_blocks_SaveBeforeTrim ==
    << Step("load", "doc", ""), Step("extract", "doc", ""),
       Step("clear", "doc", ""), Step("inject", "doc", ""),
       Step("save", "doc", "output/formatted_edited.docx"), Step("trim", "doc", ""),
       Step("preview", "doc", "output/formatted_edited.docx") >>

process_document_from_blocks ==
    << Step("load", "doc", ""), Step("extract", "doc", ""),
       Step("clear", "doc", ""), Step("inject", "doc", ""), Step("trim", "doc", ""),
       Step("save", "doc", "output/formatted_edited.docx"),
       Step("preview", "doc", "output/formatted_edited.docx") >>

\* The styles are extracted from doc, the structure and the paragraph
\* sources from sample_doc (run_structural_formatting); output_doc is
\* cleared, injected into and trimmed by build_document_from_structural_output
process_document_structural ==
    << Step("load", "doc", ""), Step("extract", "doc", ""),
       Step("load", "sample_doc", ""), Step("extract", "sample_doc", ""),
       Step("load", "output_doc", ""),
       Step("clear", "output_doc", ""), Step("inject", "output_doc", ""),
       Step("trim", "output_doc", ""), Step("validate", "output_doc", ""),
       Step("save", "output_doc", "output/formatted_structural.docx"),
       Step("preview", "output_doc", "output/formatted_structural.docx") >>

EntryPoints ==
    { "process_document", "process_document_section_by_section", "process_document_draft_driven",
      "process_document_from_blocks", "process_document_structural" }

Steps(entry) ==
    CASE entry = "process_document" -> process_document
      [] entry = "process_document_section_by_section" -> process_document_section_by_section
      [] entry = "process_document_draft_driven" -> process_document_draft_driven
      [] entry = "process_document_from_blocks" -> process_document_from_blocks
      [] entry = "process_document_structural" -> process_document_structural

DocNames == { "doc", "doc_for_images", "sample_doc", "output_doc" }

\* tempfile.mkstemp gives each invocation a name of its own
TempPath(p) == IF p = 1 THEN "tmp-1" ELSE "tmp-2"

Paths ==
    (UNION { { Steps(e)[i].path : i \in DOMAIN Steps(e) } : e \in EntryPoints } \ {"", "tmp"})
        \cup { TempPath(p) : p \in Invocations }

PathOf(p, st) == IF st.path = "tmp" THEN TempPath(p) ELSE st.path

NoFile == [exists |-> FALSE, doc |-> <<>>]

\* The paragraphs of the template
BackendTemplate == << [text |-> <<"S", "a", "m", "p", "l", "e">>, border |-> FALSE], [text |-> <<>>, border |-> TRUE] >>

\* The texts of the blocks that an invocation renders
GeneratedTexts == { << <<"A", ".">> >>, << <<"B", ".">>, <<"_", "_", "_", "_">> >> }

\* One paragraph for each text
RECURSIVE InjectAll(_, _)
InjectAll(d, texts) ==
    IF texts = <<>> THEN d ELSE InjectAll(add_paragraph(d, texts[1]), Tail(texts))

\* "\n\n".join(lines)
RECURSIVE JoinBlank(_)
JoinBlank(lines) ==
    IF lines = <<>> THEN <<>>
    ELSE IF Len(lines) = 1 THEN lines[1]
    ELSE lines[1] \o <<"\n", "\n">> \o JoinBlank(Tail(lines))

get_document_preview_text(d) ==
    strip(JoinBlank([i \in DOMAIN d |->
                       IF strip(d[i].text) = <<>> /\ d[i].border
                       THEN <<"[", "S", "E", "C", "T", "I", "O", "N", "_", "U", "N", "D", "E", "R", "L", "I", "N", "E", "]">>
                       ELSE strip(d[i].text)]))

InitBackend ==
    /\ calls \in [Invocations ->
                    [entry : EntryPoints, input : GeneratedTexts, at : {1},
                     docs : {[n \in DocNames |-> <<>>]}, reads : {<<>>}, log : {<<>>},
                     preview : {<<>>}]]
    /\ files = [f \in Paths |-> NoFile]
    /\ pc = "backend"
    /\ OnlyBackend

HasReturned(p) == calls[p].at > Len(Steps(calls[p].entry))
StepOf(p) == Steps(calls[p].entry)[calls[p].at]
AtStep(p, op) == ~HasReturned(p) /\ StepOf(p).op = op
Advance(p) == [calls[p] EXCEPT !.at = @ + 1, !.log = Append(@, StepOf(p))]

\* Document(template_file)
Load ==
    \E p \in Invocations :
        /\ AtStep(p, "load")
        /\ calls' = [calls EXCEPT ![p] = [Advance(p) EXCEPT !.docs[StepOf(p).target] = BackendTemplate]]
        /\ UNCHANGED <<pc, files, restOfBackend>>

\* extract_styles, extract_paragraph_format_sources, parse_sample_structurally
Extract ==
    \E p \in Invocations :
        /\ AtStep(p, "extract")
        /\ calls' = [calls EXCEPT ![p] =
                        [Advance(p) EXCEPT !.reads = Append(@, calls[p].docs[StepOf(p).target])]]
        /\ UNCHANGED <<pc, files, restOfBackend>>

\* clear_document_body
Clear ==
    \E p \in Invocations :
        /\ AtStep(p, "clear")
        /\ calls' = [calls EXCEPT ![p] = [Advance(p) EXCEPT !.docs[StepOf(p).target] = <<>>]]
        /\ UNCHANGED <<pc, files, restOfBackend>>

\* inject_blocks, inject_blocks_using_paragraph_sources or the loop of
\* build_document_from_draft
Inject ==
    \E p \in Invocations :
        /\ AtStep(p, "inject")
        /\ calls' = [calls EXCEPT ![p] =
                        [Advance(p) EXCEPT !.docs[StepOf(p).target] = InjectAll(@, calls[p].input)]]
        /\ UNCHANGED <<pc, files, restOfBackend>>

\* remove_trailing_empty_and_noise
Trim ==
    \E p \in Invocations :
        /\ AtStep(p, "trim")
        /\ calls' = [calls EXCEPT ![p] =
                        [Advance(p) EXCEPT !.docs[StepOf(p).target] = remove_trailing_empty_and_noise(@)]]
        /\ UNCHANGED <<pc, files, restOfBackend>>

\* validate_against_sample(output_doc, template_structure): reads only
ValidateOutput ==
    \E p \in Invocations :
        /\ AtStep(p, "validate")
        /\ calls' = [calls EXCEPT ![p] = Advance(p)]
        /\ UNCHANGED <<pc, files, restOfBackend>>

\* document.save(path)
Save ==
    \E p \in Invocations :
        /\ AtStep(p, "save")
        /\ files' = [files EXCEPT ![PathOf(p, StepOf(p))] =
                        [exists |-> TRUE, doc |-> calls[p].docs[StepOf(p).target]]]
        /\ calls' = [calls EXCEPT ![p] = Advance(p)]
        /\ UNCHANGED <<pc, restOfBackend>>

\* os.unlink(path)
Unlink ==
    \E p \in Invocations :
        /\ AtStep(p, "unlink")
        /\ files' = [files EXCEPT ![PathOf(p, StepOf(p))] = NoFile]
        /\ calls' = [calls EXCEPT ![p] = Advance(p)]
        /\ UNCHANGED <<pc, restOfBackend>>

\* preview_text = get_document_preview_text(output_path)
Preview ==
    \E p \in Invocations :
        /\ AtStep(p, "preview")
        /\ files[PathOf(p, StepOf(p))].exists
        /\ calls' = [calls EXCEPT ![p] =
                        [Advance(p) EXCEPT !.preview =
                            get_document_preview_text(files[PathOf(p, StepOf(p))].doc)]]
        /\ UNCHANGED <<pc, files, restOfBackend>>

NextBackend ==
    Load \/ Extract \/ Clear \/ Inject \/ Trim \/ ValidateOutput \/ Save \/ Unlink \/ Preview

SpecBackend == InitBackend /\ [][NextBackend]_vars

----------------------------------------------------------------------------
(* Properties of the backend *)

\* The positions in the log of invocation p of the steps op
Positions(p, op) == { i \in DOMAIN calls[p].log : calls[p].log[i].op = op }

\* The positions at which the document is saved to the output directory
OutputSaves(p) == { i \in Positions(p, "save") : calls[p].log[i].path # "tmp" }

\* The document that the invocation clears, injects into and saves
WorkingDoc(p) == IF calls[p].entry = "process_document_structural" THEN "output_doc" ELSE "doc"

\* Every step a is done once at most, and when b was done a was done before
Before(p, A, B) == \A j \in B : \E i \in A : i < j

StepOrder(p) ==
    LET extract == Positions(p, "extract")
        clear == Positions(p, "clear")
        inject == Positions(p, "inject")
        trim == Positions(p, "trim")
        save == OutputSaves(p)
    IN /\ Cardinality(clear) <= 1 /\ Cardinality(inject) <= 1
       /\ Cardinality(trim) <= 1 /\ Cardinality(save) <= 1
       /\ \A i \in extract : \A j \in clear : i < j
       /\ Before(p, extract, clear)
       /\ Before(p, clear, inject)
       /\ Before(p, inject, trim)
       /\ Before(p, trim, save)
       /\ \A i \in clear \cup inject \cup trim \cup save : calls[p].log[i].target = WorkingDoc(p)
       /\ HasReturned(p) => Cardinality(save) = 1
       \* what was saved is the cleared, injected and trimmed document
       /\ \A i \in save :
             calls[p].docs[WorkingDoc(p)] =
                 remove_trailing_empty_and_noise(InjectAll(<<>>, calls[p].input))
       \* no extraction read a document whose body was cleared
       /\ \A i \in DOMAIN calls[p].reads : calls[p].reads[i] = BackendTemplate

C16_OwnPreview ==
    \A p \in Invocations :
        HasReturned(p) => calls[p].preview = get_document_preview_text(calls[p].docs[WorkingDoc(p)])

\* Each invocation that has returned finds its own document at its path
C16_OwnOutput ==
    \A p \in Invocations :
        HasReturned(p) =>
            \A i \in OutputSaves(p) : files[calls[p].log[i].path].doc = calls[p].docs[WorkingDoc(p)]

\* Two invocations of different entry points do not meet
C16_OwnPreviewAcrossEntryPoints ==
    calls[1].entry # calls[2].entry => C16_OwnPreview

\* The preview of the other invocation's document is returned
C16_ForeignPreview ==
    /\ HasReturned(1)
    /\ calls[1].entry = calls[2].entry
    /\ calls[1].input # calls[2].input
    /\ calls[1].preview = get_document_preview_text(calls[2].docs[WorkingDoc(2)])
    /\ calls[1].preview # get_document_preview_text(calls[1].docs[WorkingDoc(1)])

----------------------------------------------------------------------------
(* Properties of the classifier: rule order around WHEREFORE *)

\* The paragraph, leading whitespace aside, begins with the letters of
\* WHEREFORE in any case
BeginsWithWherefore(raw) ==
    LET t == strip(raw)
        w == <<"W", "H", "E", "R", "E", "F", "O", "R", "E">>
    IN Len(t) >= Len(w) /\ \A i \in DOMAIN w : t[i] \in {w[i], ToLower(w[i])}

\* One of the rules evaluated before the WHEREFORE rule takes the paragraph
CaughtBeforeWherefore(raw) ==
    LET t == strip(raw)
    IN is_separator_line(t) \/ IsCourtHeader(t) \/ IsCountyLine(t) \/ IsVersusLine(t)

\* C21: a paragraph that begins with WHEREFORE in any letter case and is not
\* taken by the separator, all-caps court/county or versus rules is classified
\* wherefore_clause, also when it contains a party word; the paragraph
\* 'WHEREFORE, plaintiff demands judgment against defendant.' is.
C21_WhereforeBeforeParty ==
    pc = "classified" =>
        /\ (BeginsWithWherefore(text) /\ ~CaughtBeforeWherefore(text)) => role = Ontology.WHEREFORE_CLAUSE
        /\ text = <<"W", "H", "E", "R", "E", "F", "O", "R", "E", ",", " ", "p", "l", "a", "i", "n", "t", "i", "f", "f", " ", "d", "e", "m", "a", "n", "d", "s", " ", "j", "u", "d", "g", "m", "e", "n", "t", " ", "a", "g", "a", "i", "n", "s", "t", " ", "d", "e", "f", "e", "n", "d", "a", "n", "t", ".">> => role = Ontology.WHEREFORE_CLAUSE

C21_Witness ==
    /\ pc = "classified"
    /\ text = <<"W", "h", "e", "r", "e", "f", "o", "r", "e", ",", " ", "P", "l", "a", "i", "n", "t", "i", "f", "f", " ", "d", "e", "m", "a", "n", "d", "s", " ", "j", "u", "d", "g", "m", "e", "n", "t", " ", "a", "g", "a", "i", "n", "s", "t", " ", "D", "e", "f", "e", "n", "d", "a", "n", "t", ".">>
    /\ ContainsAny(text, PartyWords)
    /\ PartyCaption(strip(text)) = Ontology.CAPTION_PARTY
    /\ role = Ontology.WHEREFORE_CLAUSE

\* A paragraph beginning with WHEREFORE that an earlier rule takes
C21_CaughtEarlier ==
    /\ pc = "classified"
    /\ BeginsWithWherefore(text)
    /\ CaughtBeforeWherefore(text)
    /\ role # Ontology.WHEREFORE_CLAUSE

----------------------------------------------------------------------------
(* Properties of the classifier: underscore lines *)

\* The text is not empty and every character of it is an underscore
OnlyUnderscores(t) == t # <<>> /\ \A i \in DOMAIN t : t[i] = "_"

----------------------------------------------------------------------------
(* Formatting rulebook: structural_pipeline.build_formatting_rulebook *)

\* dict.get(key, default) on a dict modelled as a function on its keys
DictGet(dict, key, default) == IF key \in DOMAIN dict THEN dict[key] ELSE default

\* A dict without keys
EmptyDict == [k \in {} |-> PyNone]

\* A value that is None or a dict
NoneValue == [none |-> TRUE, items |-> EmptyDict]
DictValue(dict) == [none |-> FALSE, items |-> dict]

\* "x or {}": None and the empty dict are both falsy
OrEmptyDict(x) == IF x.none \/ DOMAIN x.items = {} THEN EmptyDict ELSE x.items

\* Python's str.isalpha and str.isupper on one character
isalpha(c) == c \in Upper \cup Lower

\* _looks_like_all_caps asking for every letter to be upper case
looks_like_all_caps_EveryLetter(raw) ==
    LET letters == SelectSeq(raw, LAMBDA c : isalpha(c))
    IN /\ raw # <<>> /\ Len(strip(raw)) >= 2
       /\ letters # <<>>
       /\ \A i \in DOMAIN letters : letters[i] \in Upper

\* _looks_like_all_caps: sum(upper) / len(letters) >= 0.85, in hundredths
looks_like_all_caps(raw) ==
    IF raw = <<>> \/ Len(strip(raw)) < 2 THEN FALSE
    ELSE LET letters == SelectSeq(raw, LAMBDA c : isalpha(c))
         IN IF letters = <<>> THEN FALSE
            ELSE 100 * Len(SelectSeq(letters, LAMBDA c : c \in Upper)) >= 85 * Len(letters)

\* The entry appended to layout_pattern for a slot
LayoutEntry(slot) ==
    [ section_type |-> DictGet(slot, "section_type", "body"),
      block_kind |-> DictGet(slot, "block_kind", "paragraph"),
      style |-> DictGet(slot, "style", "Normal"),
      paragraph_format |-> OrEmptyDict(DictGet(slot, "paragraph_format", NoneValue)),
      run_format |-> OrEmptyDict(DictGet(slot, "run_format", NoneValue)),
      page_break_before |-> DictGet(slot, "page_break_before", FALSE),
      hint |-> DictGet(slot, "hint", <<>>) ]

\* The rule written into rules_by_type for a slot
TypicalRule(slot) ==
    LET pf == OrEmptyDict(DictGet(slot, "paragraph_format", NoneValue))
        rf == OrEmptyDict(DictGet(slot, "run_format", NoneValue))
    IN [ alignment |-> DictGet(pf, "alignment", PyNone),
         space_after |-> DictGet(pf, "space_after", PyNone),
         space_before |-> DictGet(pf, "space_before", PyNone),
         left_indent |-> DictGet(pf, "left_indent", PyNone),
         bold |-> DictGet(rf, "bold", PyNone),
         all_caps_typical |-> looks_like_all_caps(DictGet(slot, "hint", <<>>)) ]

\* build_formatting_rulebook: "if section_type not in rules_by_type" keeps
\* the rule of the first slot of each section type
build_formatting_rulebook(ts) ==
    LET TypeOf(i) == DictGet(ts[i], "section_type", "body")
        types == { TypeOf(i) : i \in DOMAIN ts }
        First(st) == CHOOSE i \in DOMAIN ts : TypeOf(i) = st /\ \A j \in 1..(i - 1) : TypeOf(j) # st
    IN [ layout_pattern |-> [i \in DOMAIN ts |-> LayoutEntry(ts[i])],
         rules_by_type |-> [st \in types |-> TypicalRule(ts[First(st)])] ]

\* Hints of template slots: a title in capitals, one letter, no text, digits
\* only, and 17 and 16 capitals among 20 letters
RulebookHints ==
    { <<"S", "U", "M", "M", "O", "N", "S">>, <<"A">>, <<>>, <<"1", "2">>, <<"A", "B", "C", "D", "E", "F", "G", "H", "I", "J", "K", "L", "M", "N", "O", "P", "Q", "a", "b", "c">>, <<"A", "B", "C", "D", "E", "F", "G", "H", "I", "J", "K", "L", "M", "N", "O", "P", "a", "b", "c", "d">> }

\* The formats a slot is enumerated with: one with no format recorded and the
\* optional keys absent, one with every key and a partial paragraph format
SlotFormats ==
    { [ block_kind |-> "paragraph", paragraph_format |-> NoneValue ],
      [ block_kind |-> "line", style |-> "Title", page_break_before |-> TRUE,
        paragraph_format |-> DictValue([alignment |-> "center", space_after |-> 12]),
        run_format |-> DictValue([bold |-> TRUE]) ] }

RulebookSlots ==
    { [k \in DOMAIN f \cup {"section_type", "hint"} |->
          IF k = "section_type" THEN st ELSE IF k = "hint" THEN h ELSE f[k]] :
        st \in SectionTypes, h \in RulebookHints, f \in SlotFormats }

InitRulebook ==
    /\ pc = "rulebook"
    /\ rulebook_input \in SeqsUpTo(RulebookSlots, MaxSlots)
    /\ rulebook = Idle
    /\ OnlyRulebook

\* rulebook = build_formatting_rulebook(template_structure)
BuildRulebook ==
    /\ pc = "rulebook"
    /\ rulebook' = build_formatting_rulebook(rulebook_input)
    /\ pc' = "rulebook_built"
    /\ UNCHANGED <<rulebook_input, restOfRulebook>>

NextRulebook == BuildRulebook

SpecRulebook == InitRulebook /\ [][NextRulebook]_vars

----------------------------------------------------------------------------
(* Properties of the rulebook *)

\* The first slot of a section type, by position
FirstSlotOfType(st) ==
    rulebook_input[CHOOSE i \in DOMAIN rulebook_input :
        /\ rulebook_input[i].section_type = st
        /\ \A j \in DOMAIN rulebook_input : rulebook_input[j].section_type = st => i <= j]

\* At least 2 characters, at least one letter, at least 85% of the letters
\* upper case
MostlyCapitals(h) ==
    LET nletters == Cardinality({ i \in DOMAIN h : h[i] \in Upper \cup Lower })
        ncapitals == Cardinality({ i \in DOMAIN h : h[i] \in Upper })
    IN Len(h) >= 2 /\ nletters >= 1 /\ 100 * ncapitals >= 85 * nletters

----------------------------------------------------------------------------
(* Inline emphasis markers: formatter.parse_inline_formatting_markers *)

\* The longest enumerated text with markers
MaxMarkedLen == 5

\* One tuple (segment_text, bold, italic, underline)
Segment(seg, b, i, u) == [text |-> seg, bold |-> b, italic |-> i, underline |-> u]

\* The marker that re.split(r"(\*\*|__|\*)") finds at position i, or "" when
\* the character there belongs to a text token
MarkerAt(t, i) ==
    IF i < Len(t) /\ t[i] = "*" /\ t[i + 1] = "*" THEN "**"
    ELSE IF i < Len(t) /\ t[i] = "_" /\ t[i + 1] = "_" THEN "__"
    ELSE IF t[i] = "*" THEN "*"
    ELSE ""

\* The characters a marker takes
MarkerWidth == [m \in {"**", "__", "*"} |-> IF m = "*" THEN <<1>> ELSE <<1, 2>>]

\* The loop over the tokens, from position i on: a marker toggles its flag
\* and is not appended; a non-empty text token is appended with the flags
\* as they stand.  buf is the text token being read.
RECURSIVE ParseFrom(_, _, _, _, _, _, _)
ParseFrom(t, i, b, it, u, buf, out) ==
    LET flushed == IF buf = <<>> THEN out ELSE Append(out, Segment(buf, b, it, u))
    IN IF i > Len(t) THEN flushed
       ELSE CASE MarkerAt(t, i) = "**" -> ParseFrom(t, i + 2, ~b, it, u, <<>>, flushed)
              [] MarkerAt(t, i) = "__" -> ParseFrom(t, i + 2, b, it, ~u, <<>>, flushed)
              [] MarkerAt(t, i) = "*" -> ParseFrom(t, i + 1, b, ~it, u, <<>>, flushed)
              [] OTHER -> ParseFrom(t, i + 1, b, it, u, Append(buf, t[i]), out)

\* parse_inline_formatting_markers
parse_inline_formatting_markers(raw) ==
    IF raw = <<>> THEN <<Segment(<<>>, FALSE, FALSE, FALSE)>>
    ELSE LET segs == ParseFrom(raw, 1, FALSE, FALSE, FALSE, <<>>, <<>>)
         IN IF segs # <<>> THEN segs ELSE <<Segment(<<>>, FALSE, FALSE, FALSE)>>

\* Texts made of marker characters and letters, and paragraphs with a
\* matched pair of each kind and with an unmatched marker
MarkedTexts ==
    SeqsUpTo({"*", "_", "a"}, MaxMarkedLen)
        \cup { <<"x", " ", "*", "*", "b", "*", "*", " ", "*", "i", "*", " ", "_", "_", "u", "_", "_", " ", "y">>, <<"a", " ", "*", "*", "b">>, <<"D", "a", "t", "e", "d", ":", " ", "*", "*">>, <<"*", "C", "l", "a", "i", "m", "a", "n", "t", "*">>, <<"f", "i", "l", "e", "_", "n", "a", "m", "e", " ", "a", "n", "d", " ", "2", " ", "*", " ", "3">> }

InitMarkers ==
    /\ pc = "parse_markers"
    /\ marked_text \in MarkedTexts
    /\ segments = Idle
    /\ OnlyMarkers

\* segments = parse_inline_formatting_markers(text)
ParseMarkers ==
    /\ pc = "parse_markers"
    /\ segments' = parse_inline_formatting_markers(marked_text)
    /\ pc' = "parsed_markers"
    /\ UNCHANGED <<marked_text, restOfMarkers>>

NextMarkers == ParseMarkers

SpecMarkers == InitMarkers /\ [][NextMarkers]_vars

----------------------------------------------------------------------------
(* Properties of the inline markers *)

\* The markers of the text in their order, as the split finds them
RECURSIVE MarkersFrom(_, _)
MarkersFrom(t, i) ==
    IF i > Len(t) THEN <<>>
    ELSE IF MarkerAt(t, i) = "" THEN MarkersFrom(t, i + 1)
    ELSE <<MarkerAt(t, i)>> \o MarkersFrom(t, i + Len(MarkerWidth[MarkerAt(t, i)]))

\* The run texts one after the other
RunText(segs) ==
    LET Upto[k \in 0..Len(segs)] == IF k = 0 THEN <<>> ELSE Upto[k - 1] \o segs[k].text
    IN Upto[Len(segs)]

\* No run carries a format
Unformatted(segs) == \A k \in DOMAIN segs : ~segs[k].bold /\ ~segs[k].italic /\ ~segs[k].underline

\* The text has markers and each of them is the only one of its kind: no
\* marker has a closing partner
OnlyUnmatchedMarkers(t) ==
    \A ms \in {MarkersFrom(t, 1)} :
        /\ ms # <<>>
        /\ \A j, k \in DOMAIN ms : ms[j] = ms[k] => j = k

\* C24: a marker with no closing partner is kept as literal characters in the
\* run text and changes no run's format: for a text whose markers are all
\* without a partner, the runs are unformatted and their texts make up the
\* text.
C24_UnmatchedMarkerLiteral ==
    (pc = "parsed_markers" /\ OnlyUnmatchedMarkers(marked_text)) =>
        /\ Unformatted(segments)
        /\ RunText(segments) = marked_text

\* A text with one unmatched bold marker before a word: the word is a bold
\* run and the marker is in no run
C24_UnmatchedMarkerFormats ==
    /\ pc = "parsed_markers"
    /\ marked_text = <<"a", " ", "*", "*", "b">>
    /\ segments = <<Segment(<<"a", " ">>, FALSE, FALSE, FALSE), Segment(<<"b">>, TRUE, FALSE, FALSE)>>

\* A text that ends in an unmatched marker: the marker is in no run
C24_TrailingMarkerDropped ==
    /\ pc = "parsed_markers"
    /\ marked_text = <<"D", "a", "t", "e", "d", ":", " ", "*", "*">>
    /\ segments = <<Segment(<<"D", "a", "t", "e", "d", ":", " ">>, FALSE, FALSE, FALSE)>>

\* No run text holds a marker, matched or not
C24_MarkersNeverInRuns ==
    pc = "parsed_markers" =>
        \A k \in DOMAIN segments : \A i \in DOMAIN segments[k].text : MarkerAt(segments[k].text, i) = ""

\* The runs inside matched pairs carry the pair's format
C24_MatchedPairsFormatted ==
    (pc = "parsed_markers" /\ marked_text = <<"x", " ", "*", "*", "b", "*", "*", " ", "*", "i", "*", " ", "_", "_", "u", "_", "_", " ", "y">>) =>
        segments = << Segment(<<"x", " ">>, FALSE, FALSE, FALSE), Segment(<<"b">>, TRUE, FALSE, FALSE),
                      Segment(<<" ">>, FALSE, FALSE, FALSE), Segment(<<"i">>, FALSE, TRUE, FALSE),
                      Segment(<<" ">>, FALSE, FALSE, FALSE), Segment(<<"u">>, FALSE, FALSE, TRUE),
                      Segment(<<" ", "y">>, FALSE, FALSE, FALSE) >>

----------------------------------------------------------------------------
(* Numbered content in the fallback path of inject_blocks *)

\* str.startswith for any of the phrases
StartsWithAny(t, phrases) == \E w \in phrases : startswith(t, w)

\* re.sub(pattern, "", t, count=1) for a pattern anchored at the start
subPrefixCi(re, t, ci) ==
    LET e == Ends(re, t, {0}, ci)
    IN IF e = {} THEN t
       ELSE SubSeq(t, (CHOOSE p \in e : \A q \in e : p >= q) + 1, Len(t))

INTRO_PHRASES_NO_NUMBER ==
    { <<"a", "t", " ", "t", "h", "e", " ", "t", "i", "m", "e", " ", "o", "f", " ", "t", "h", "e", " ", "a", "c", "c", "i", "d", "e", "n", "t">>, <<"a", "t", " ", "t", "h", "e", " ", "t", "i", "m", "e", " ", "o", "f", " ", "t", "h", "e", " ", "o", "c", "c", "u", "r", "r", "e", "n", "c", "e">>, <<"a", "t", " ", "a", "l", "l", " ", "t", "i", "m", "e", "s", " ", "r", "e", "l", "e", "v", "a", "n", "t", " ", "h", "e", "r", "e", "i", "n">> }

NOT_LIST_CONTENT_PHRASES ==
    { <<"a", "t", "t", "o", "r", "n", "e", "y", "s", " ", "f", "o", "r", " ", "p", "l", "a", "i", "n", "t", "i", "f", "f">>, <<"a", "t", "t", "o", "r", "n", "e", "y", "s", " ", "f", "o", "r", " ", "d", "e", "f", "e", "n", "d", "a", "n", "t">>, <<"p", "a", "r", "k", " ", "a", "v", "e", "n", "u", "e">>, <<"f", "l", "o", "o", "r">>,
      <<"n", "e", "w", " ", "y", "o", "r", "k", ",", " ", "n", "e", "w", " ", "y", "o", "r", "k">>, <<"s", "t", "r", "e", "e", "t">>, <<"a", "v", "e", "n", "u", "e">>, <<"r", "o", "a", "d">>, <<"d", "r", "i", "v", "e">>, <<"c", "o", "u", "r", "t">>, <<"p", "l", "l", "c">>,
      <<"e", "s", "q", ".">>, <<"t", "e", "l", ".">>, <<"f", "a", "x">> }

ALLEGATION_STARTERS ==
    { <<"t", "h", "a", "t", " ">>, <<"b", "y", " ", "r", "e", "a", "s", "o", "n", " ", "o", "f">>, <<"p", "u", "r", "s", "u", "a", "n", "t", " ", "t", "o">>, <<"p", "l", "a", "i", "n", "t", "i", "f", "f", "'", "s", " ">>, <<"t", "h", "e", " ", "d", "e", "t", "a", "i", "l", "e", "d", " ">>, <<"t", "h", "e", " ", "a", "b", "o", "v", "e", "-", "s", "t", "a", "t", "e", "d", " ">> }

AFFIRMATION_POINT_STARTERS ==
    { <<"i", " ", "m", "a", "k", "e", " ">>, <<"i", " ", "m", "a", "k", "e", " ", "t", "h", "i", "s", " ">>, <<"t", "h", "i", "s", " ", "a", "c", "t", "i", "o", "n", " ">>, <<"t", "h", "i", "s", " ", "a", "c", "t", "i", "o", "n", " ", "w", "a", "s", " ">>, <<"t", "h", "e", "r", "e", "a", "f", "t", "e", "r", ",", " ">>, <<"t", "h", "e", "r", "e", "a", "f", "t", "e", "r", " ">>,
      <<"p", "l", "a", "i", "n", "t", "i", "f", "f", " ", "s", "e", "r", "v", "e", "d", " ">>, <<"a", " ", "p", "r", "e", "l", "i", "m", "i", "n", "a", "r", "y", " ">>, <<"o", "n", " ", "o", "r", " ", "a", "b", "o", "u", "t", " ">>, <<"o", "n", " ", "d", "e", "c", "e", "m", "b", "e", "r", " ">>, <<"o", "n", " ", "j", "a", "n", "u", "a", "r", "y", " ">>,
      <<"o", "n", " ", "f", "e", "b", "r", "u", "a", "r", "y", " ">>, <<"o", "n", " ", "m", "a", "r", "c", "h", " ">>, <<"o", "n", " ", "a", "p", "r", "i", "l", " ">>, <<"o", "n", " ", "m", "a", "y", " ">>, <<"o", "n", " ", "j", "u", "n", "e", " ">>, <<"o", "n", " ", "j", "u", "l", "y", " ">>, <<"o", "n", " ", "a", "u", "g", "u", "s", "t", " ">>,
      <<"o", "n", " ", "s", "e", "p", "t", "e", "m", "b", "e", "r", " ">>, <<"o", "n", " ", "o", "c", "t", "o", "b", "e", "r", " ">>, <<"o", "n", " ", "n", "o", "v", "e", "m", "b", "e", "r", " ">> }

NOTICE_ENTRY_SETTLEMENT_STARTERS ==
    { <<"t", "h", "a", "t", " ", "t", "h", "e", " ", "w", "i", "t", "h", "i", "n">>, <<"t", "h", "a", "t", " ", "a", "n", " ", "o", "r", "d", "e", "r", " ", "o", "f", " ", "w", "h", "i", "c", "h", " ", "t", "h", "e", " ", "w", "i", "t", "h", "i", "n">> }

NUMBERED_CLAIM_HEADING_STARTERS ==
    { <<"t", "h", "e", " ", "n", "a", "m", "e", " ", "a", "n", "d", " ", "p", "o", "s", "t", "-", "o", "f", "f", "i", "c", "e", " ", "a", "d", "d", "r", "e", "s", "s", " ", "o", "f", " ", "t", "h", "e", " ", "c", "l", "a", "i", "m", "a", "n", "t">>, <<"t", "h", "e", " ", "n", "a", "t", "u", "r", "e", " ", "o", "f", " ", "t", "h", "e", " ", "c", "l", "a", "i", "m">>,
      <<"t", "h", "e", " ", "t", "i", "m", "e", " ", "w", "h", "e", "n", ",", " ", "t", "h", "e", " ", "p", "l", "a", "c", "e", " ", "w", "h", "e", "r", "e", " ", "a", "n", "d", " ", "t", "h", "e", " ", "m", "a", "n", "n", "e", "r", " ", "i", "n", " ", "w", "h", "i", "c", "h", " ", "t", "h", "e", " ", "c", "l", "a", "i", "m", " ", "a", "r", "o", "s", "e">>,
      <<"t", "h", "e", " ", "d", "a", "m", "a", "g", "e", "s", ",", " ", "a", "n", "d", " ", "i", "n", "j", "u", "r", "i", "e", "s", " ", "s", "u", "s", "t", "a", "i", "n", "e", "d">>, <<"t", "h", "e", " ", "d", "a", "m", "a", "g", "e", "s", ",", " ", "a", "n", "d", " ", "i", "n", "j", "u", "r", "i", "e", "s", " ", "s", "u", "s", "t", "a", "i", "n", "e", "d", ":">> }

COURT_CAPTION_PHRASES ==
    { <<"s", "u", "p", "e", "r", "i", "o", "r", " ", "c", "o", "u", "r", "t">>, <<"s", "u", "p", "e", "r", "i", "o", "r", " ", "c", "o", "u", "r", "t", " ", "o", "f">>, <<"s", "u", "p", "r", "e", "m", "e", " ", "c", "o", "u", "r", "t", " ", "o", "f">>, <<"i", "n", "d", "e", "x", " ", "n", "o", ".", ":">>, <<"i", "n", "d", "e", "x", " ", "n", "o", ".">>,
      <<"d", "a", "t", "e", " ", "f", "i", "l", "e", "d", ":">>, <<"p", "l", "a", "i", "n", "t", "i", "f", "f", ",">>, <<"d", "e", "f", "e", "n", "d", "a", "n", "t", ".">>, <<"-", "a", "g", "a", "i", "n", "s", "t", "-">> }

LIST_STARTS ==
    { <<"t", "h", "a", "t", " ">>, <<"f", "i", "r", "s", "t", ",">>, <<"s", "e", "c", "o", "n", "d", ",">>, <<"t", "h", "i", "r", "d", ",">>, <<"p", "l", "a", "i", "n", "t", "i", "f", "f", " ">>, <<"p", "l", "a", "i", "n", "t", "i", "f", "f", "'", "s", " ">>, <<"d", "e", "f", "e", "n", "d", "a", "n", "t", " ">>,
      <<"t", "h", "e", " ", "c", "o", "u", "r", "t", " ">>, <<"m", "o", "v", "a", "n", "t", " ">>, <<"r", "e", "s", "p", "o", "n", "d", "e", "n", "t", " ">>, <<"a", "p", "p", "l", "i", "c", "a", "n", "t", " ">>, <<"p", "e", "t", "i", "t", "i", "o", "n", "e", "r", " ">>, <<"1", ".">>, <<"2", ".">>, <<"a", ".">>, <<"b", ".">>,
      <<"b", "y", " ", "r", "e", "a", "s", "o", "n", " ", "o", "f">>, <<"p", "u", "r", "s", "u", "a", "n", "t", " ", "t", "o">>, <<"t", "h", "e", " ", "d", "e", "t", "a", "i", "l", "e", "d">>, <<"t", "h", "e", " ", "a", "b", "o", "v", "e", "-", "s", "t", "a", "t", "e", "d">> }

\* ^\d+[\.\)]\s+  is NumberTokenRe;  ^\d+[\.\)]\s*
NumberPrefixRe == Cat(<<Plus(digit), Ch({".", ")"}), Star(wspace)>>)
\* ^[a-z][\.\)]\s*  and  ^[a-z][\.\)]\s+
LetterPrefixRe == Cat(<<Ch(Lower), Ch({".", ")"}), Star(wspace)>>)
LetterTokenRe == Cat(<<Ch(Lower), Ch({".", ")"}), Plus(wspace)>>)
\* ^[ivx]+[\.\)]\s*  and  ^[ivx]+[\.\)]\s+
RomanPrefixRe == Cat(<<Plus(Ch({"i", "v", "x"})), Ch({".", ")"}), Star(wspace)>>)
RomanTokenRe == Cat(<<Plus(Ch({"i", "v", "x"})), Ch({".", ")"}), Plus(wspace)>>)

\* _looks_like_list_item
looks_like_list_item(raw) ==
    IF raw = <<>> \/ Len(strip(raw)) < 3 THEN FALSE
    ELSE LET t == lower(strip(raw))
         IN IF StartsWithAny(t, INTRO_PHRASES_NO_NUMBER) THEN FALSE
            ELSE IF /\ StartsWithAny(t, NOT_LIST_CONTENT_PHRASES)
                    /\ ~match(Cat(<<Plus(Ch(Digit \cup {"a", "i"})), Ch({".", ")"}), Star(wspace)>>), t)
                 THEN FALSE
            ELSE IF match(Cat(<<Lit(<<"(">>), Rep(digit, 3, 3), Lit(<<")">>), Star(wspace),
                                Rep(digit, 3, 3), Lit(<<"-">>), Rep(digit, 4, 4)>>), t)
                 THEN FALSE
            ELSE IF match(NumberTokenRe, t) \/ match(LetterTokenRe, t) \/ match(RomanTokenRe, t) THEN TRUE
            ELSE StartsWithAny(t, LIST_STARTS)

\* _is_notice_of_entry_or_settlement
is_notice_of_entry_or_settlement(raw) ==
    IF raw = <<>> \/ Len(strip(raw)) < 15 THEN FALSE
    ELSE StartsWithAny(lower(strip(raw)), NOTICE_ENTRY_SETTLEMENT_STARTERS)

\* _starts_allegation
starts_allegation(line) ==
    IF line = <<>> \/ Len(strip(line)) < 10 THEN FALSE
    ELSE IF is_notice_of_entry_or_settlement(line) THEN FALSE
    ELSE StartsWithAny(lower(strip(line)), ALLEGATION_STARTERS)

\* _starts_affirmation_point
starts_affirmation_point(line) ==
    IF line = <<>> \/ Len(strip(line)) < 12 THEN FALSE
    ELSE StartsWithAny(lower(strip(line)), AFFIRMATION_POINT_STARTERS)

\* _is_numbered_point_content
is_numbered_point_content(raw) == starts_allegation(raw) \/ starts_affirmation_point(raw)

\* _looks_like_numbered_claim_heading
looks_like_numbered_claim_heading(raw) ==
    IF raw = <<>> \/ Len(strip(raw)) < 10 THEN FALSE
    ELSE StartsWithAny(strip(subPrefix(NumberTokenRe, lower(strip(raw)))), NUMBERED_CLAIM_HEADING_STARTERS)

\* _looks_like_court_caption
looks_like_court_caption(raw) ==
    IF raw = <<>> \/ Len(strip(raw)) < 3 THEN FALSE
    ELSE ContainsAny(lower(strip(raw)), COURT_CAPTION_PHRASES)

\* _looks_like_cause_of_action_heading
looks_like_cause_of_action_heading(raw) ==
    IF raw = <<>> \/ Len(strip(raw)) < 10 THEN FALSE
    ELSE LET t == lower(strip(raw))
         IN Contains(t, <<"c", "a", "u", "s", "e", " ", "o", "f", " ", "a", "c", "t", "i", "o", "n">>) /\ Contains(t, <<"a", "s", " ", "a", "n", "d", " ", "f", "o", "r">>)

\* The three substitutions that take a leading number, letter and roman
\* token off the text, each followed by strip()
StripLeadingTokens(raw) ==
    LET a == strip(subPrefixCi(NumberPrefixRe, raw, FALSE))
        b == strip(subPrefixCi(LetterPrefixRe, a, FALSE))
    IN strip(subPrefixCi(RomanPrefixRe, b, TRUE))

\* str.split("\n")
SplitNewline(t) ==
    LET nl == { i \in DOMAIN t : t[i] = "\n" }
        n == Cardinality(nl)
        Brk(k) == IF k = 0 THEN 0
                  ELSE IF k = n + 1 THEN Len(t) + 1
                  ELSE CHOOSE i \in nl : Cardinality({ j \in nl : j < i }) = k - 1
    IN [k \in 1..(n + 1) |-> SubSeq(t, Brk(k - 1) + 1, Brk(k) - 1)]

\* [ln.strip() for ln in t.split("\n") if ln.strip()]
NonBlankLines(t) ==
    LET stripped == [k \in DOMAIN SplitNewline(t) |-> strip(SplitNewline(t)[k])]
    IN SelectSeq(stripped, LAMBDA ln : ln # <<>>)

\* " ".join(lines)
JoinSpace(lines) ==
    LET Upto[k \in 0..Len(lines)] ==
            IF k = 0 THEN <<>>
            ELSE IF k = 1 THEN lines[1]
            ELSE Upto[k - 1] \o <<" ">> \o lines[k]
    IN Upto[Len(lines)]

\* re.split(r"\n\s*\n", t), the chunks stripped and the empty ones left out:
\* the chunks are the runs of lines between the lines that hold whitespace
\* only
Chunks(t) ==
    LET lines == SplitNewline(t)
        n == Len(lines)
        Blank(k) == strip(lines[k]) = <<>>
        \* the whitespace-only first line and last line belong to no separator
        Sep(k) == k > 1 /\ k < n /\ Blank(k)
        starts == { k \in 1..n : ~Sep(k) /\ (k = 1 \/ Sep(k - 1)) }
        EndOf(s) == CHOOSE e \in s..n : (\A k \in s..e : ~Sep(k)) /\ (e = n \/ Sep(e + 1))
        JoinNewline(s, e) ==
            LET Upto[k \in s..e] == IF k = s THEN lines[s] ELSE Upto[k - 1] \o <<"\n">> \o lines[k]
            IN Upto[e]
        Nth(j) == CHOOSE s \in starts : Cardinality({ r \in starts : r < s }) = j - 1
        all == [j \in 1..Cardinality(starts) |-> strip(JoinNewline(Nth(j), EndOf(Nth(j))))]
    IN SelectSeq(all, LAMBDA c : c # <<>>)

\* The inner loop of _split_allegation_block over the lines of a chunk: a
\* line that starts an allegation or an affirmation point begins a new
\* paragraph, any other line continues the paragraph
SplitAtPoints(lines) ==
    LET IsPoint(k) == starts_allegation(lines[k]) \/ starts_affirmation_point(lines[k])
        starts == { k \in DOMAIN lines : k = 1 \/ IsPoint(k) }
        Nth(j) == CHOOSE s \in starts : Cardinality({ r \in starts : r < s }) = j - 1
        EndOf(s) == CHOOSE e \in s..Len(lines) :
                        (\A k \in (s + 1)..e : ~IsPoint(k)) /\ (e = Len(lines) \/ IsPoint(e + 1))
    IN [j \in 1..Cardinality(starts) |-> JoinSpace(SubSeq(lines, Nth(j), EndOf(Nth(j))))]

\* What _split_allegation_block appends for one chunk
SplitChunk(chunk) ==
    LET lines == NonBlankLines(chunk)
        points == { k \in DOMAIN lines : starts_allegation(lines[k]) \/ starts_affirmation_point(lines[k]) }
    IN IF Len(lines) <= 1 \/ Cardinality(points) <= 1 THEN <<chunk>>
       ELSE SplitAtPoints(lines)

\* _split_allegation_block
split_allegation_block(raw) ==
    IF strip(raw) = <<>> THEN <<>>
    ELSE LET t == strip(raw)
             parts == [j \in DOMAIN Chunks(t) |-> SplitChunk(Chunks(t)[j])]
             Upto[k \in 0..Len(parts)] == IF k = 0 THEN <<>> ELSE Upto[k - 1] \o parts[k]
         IN IF Upto[Len(parts)] # <<>> THEN Upto[Len(parts)] ELSE <<t>>

\* The style map and the styles of the template: every role has a style and
\* the numbered style is among the template's styles
NumberedStyleMap ==
    [heading |-> "Title", section_header |-> "Heading 1", paragraph |-> "Normal", numbered |-> "List Number"]
ValidStyleNames == { NumberedStyleMap[k] : k \in DOMAIN NumberedStyleMap }

\* A paragraph added to the document: its text, its style, whether
\* _apply_num_pr gave it the list-numbering reference, and the text the
\* paragraph was made from, before tokens were taken off
NumberedParagraph(t, sty, numbered, src) ==
    [kind |-> "text", text |-> t, style |-> sty, num_pr |-> numbered, source |-> src]
PageBreakParagraph ==
    [kind |-> "page_break", text |-> <<>>, style |-> "", num_pr |-> FALSE, source |-> <<>>]

\* The loop "for one in allegation_paras"
RenderAllegationParas(d, paras, num_id) ==
    LET stripped == [k \in DOMAIN paras |-> strip(paras[k])]
        kept == SelectSeq(stripped, LAMBDA one : one # <<>>)
        Para(one) ==
            LET shown == render_checkboxes(StripLeadingTokens(one))
            IN NumberedParagraph(SegmentsText(shown), NumberedStyleMap.numbered,
                                 num_id # None /\ is_numbered_point_content(shown), one)
    IN d \o [k \in DOMAIN kept |-> Para(kept[k])]

\* The style chosen for a text paragraph
ChooseStyle(block_type, t) ==
    LET first == IF looks_like_court_caption(t) \/ looks_like_cause_of_action_heading(t)
                 THEN NumberedStyleMap.section_header
                 ELSE IF looks_like_numbered_claim_heading(t) \/ looks_like_list_item(t)
                 THEN NumberedStyleMap.numbered
                 ELSE IF block_type \in ValidStyleNames THEN block_type
                 ELSE IF block_type \in DOMAIN NumberedStyleMap THEN NumberedStyleMap[block_type]
                 ELSE NumberedStyleMap.paragraph
    IN IF first # NumberedStyleMap.numbered /\ is_numbered_point_content(strip(t))
       THEN NumberedStyleMap.numbered ELSE first

\* The body of the loop over blocks_to_render for a block that is a text
\* paragraph (not a page break, line, signature line or section underline),
\* with the stripped text t, no section heading samples, and before it the
\* paragraphs d
RenderTextBlock(d, block_type, t, num_id) ==
    IF t = <<>> THEN d
    ELSE LET sp == split_underscore_line_and_name(t)
             d1 == IF sp # <<>>
                   THEN Append(d, NumberedParagraph(sp[1], NumberedStyleMap.paragraph, FALSE, sp[1]))
                   ELSE d
             t1 == IF sp # <<>> THEN sp[2] ELSE t
             lines_in_block == NonBlankLines(t1)
             first_line == IF Contains(t1, <<"\n">>) THEN strip(SplitNewline(t1)[1]) ELSE t1
             has_any_allegation ==
                 \E k \in DOMAIN lines_in_block :
                     starts_allegation(lines_in_block[k]) \/ starts_affirmation_point(lines_in_block[k])
             allegation_paras ==
                 IF looks_like_list_item(first_line) \/ (Len(lines_in_block) > 1 /\ has_any_allegation)
                 THEN split_allegation_block(t1) ELSE <<>>
         IN IF Len(allegation_paras) > 1 THEN RenderAllegationParas(d1, allegation_paras, num_id)
            ELSE LET sty == ChooseStyle(block_type, t1)
                     d2 == IF d1 # <<>> /\ looks_like_attorney_verification_heading(t1)
                           THEN Append(d1, PageBreakParagraph) ELSE d1
                     t2 == IF /\ sty = NumberedStyleMap.numbered
                              /\ (is_numbered_point_content(strip(t1)) \/ looks_like_numbered_claim_heading(t1))
                           THEN StripLeadingTokens(t1) ELSE t1
                     t3 == render_checkboxes(t2)
                     txt_stripped == strip(t3)
                     is_any_numbered_point ==
                         /\ sty = NumberedStyleMap.numbered
                         /\ \/ starts_allegation(txt_stripped)
                            \/ starts_affirmation_point(txt_stripped)
                            \/ looks_like_numbered_claim_heading(IF t3 # <<>> THEN t3 ELSE txt_stripped)
                 IN Append(d2, NumberedParagraph(SegmentsText(t3), sty,
                                                 num_id # None /\ is_any_numbered_point, t1))

\* Leading tokens and contents of the enumerated blocks
LeadingTokens == { <<>>, <<"1", ".", " ">>, <<"2", ")", " ">>, <<"a", ".", " ">>, <<"i", "v", ".", " ">> }
NumberedContents ==
    { <<"T", "h", "a", "t", " ", "o", "n", " ", "J", "u", "n", "e", " ", "1", ",", " ", "2", "0", "2", "3", ",", " ", "t", "h", "e", " ", "d", "e", "f", "e", "n", "d", "a", "n", "t", " ", "w", "a", "s", " ", "n", "e", "g", "l", "i", "g", "e", "n", "t", ".">>,
      <<"I", " ", "m", "a", "k", "e", " ", "t", "h", "i", "s", " ", "a", "f", "f", "i", "r", "m", "a", "t", "i", "o", "n", " ", "i", "n", " ", "s", "u", "p", "p", "o", "r", "t", " ", "o", "f", " ", "t", "h", "e", " ", "m", "o", "t", "i", "o", "n", ".">>,
      <<"T", "h", "e", " ", "n", "a", "t", "u", "r", "e", " ", "o", "f", " ", "t", "h", "e", " ", "c", "l", "a", "i", "m", ":">>,
      <<"T", "h", "e", " ", "p", "a", "r", "t", "i", "e", "s", " ", "m", "e", "t", " ", "i", "n", " ", "M", "a", "r", "c", "h", ".">>,
      <<"T", "h", "a", "t", " ", "t", "h", "e", " ", "w", "i", "t", "h", "i", "n", " ", "i", "s", " ", "a", " ", "t", "r", "u", "e", " ", "c", "o", "p", "y", " ", "o", "f", " ", "a", "n", " ", "o", "r", "d", "e", "r", ".">>,
      <<"S", "U", "P", "R", "E", "M", "E", " ", "C", "O", "U", "R", "T", " ", "O", "F", " ", "T", "H", "E", " ", "S", "T", "A", "T", "E", " ", "O", "F", " ", "N", "E", "W", " ", "Y", "O", "R", "K">>,
      <<"T", "h", "a", "t", " ", "o", "n", " ", "J", "u", "n", "e", " ", "1", " ", "t", "h", "e", " ", "d", "e", "f", "e", "n", "d", "a", "n", "t", " ", "w", "a", "s", " ", "n", "e", "g", "l", "i", "g", "e", "n", "t", ".", "\n", "B", "y", " ", "r", "e", "a", "s", "o", "n", " ", "o", "f", " ", "t", "h", "e", " ", "f", "o", "r", "e", "g", "o", "i", "n", "g", ",", " ", "p", "l", "a", "i", "n", "t", "i", "f", "f", " ", "w", "a", "s", " ", "i", "n", "j", "u", "r", "e", "d", ".">>,
      <<"T", "h", "a", "t", " ", "o", "n", " ", "J", "u", "n", "e", " ", "1", " ", "t", "h", "e", " ", "d", "e", "f", "e", "n", "d", "a", "n", "t", " ", "w", "a", "s", " ", "n", "e", "g", "l", "i", "g", "e", "n", "t", ".", "\n", "\n", "2", ".", " ", "T", "h", "e", " ", "l", "e", "a", "s", "e", " ", "w", "a", "s", " ", "s", "i", "g", "n", "e", "d", " ", "i", "n", " ", "M", "a", "y", ".">> }

\* numbered_num_id as the entry points of the backend leave it (None) and
\* as a caller that read the template's numbering passes it
NumIds == {None, 1}

InitNumbered ==
    /\ pc = "render_numbered"
    /\ numbered_block \in { <<bt, tok \o c>> : bt \in {"paragraph", "numbered"}, tok \in LeadingTokens, c \in NumberedContents }
    /\ numbered_num_id \in NumIds
    /\ numbered_doc = <<>>
    /\ OnlyNumbered

\* One iteration of "for block_type, text in blocks_to_render" on the
\* cleared document
RenderNumbered ==
    /\ pc = "render_numbered"
    /\ numbered_doc' = RenderTextBlock(numbered_doc, numbered_block[1], strip(numbered_block[2]), numbered_num_id)
    /\ pc' = "numbered_rendered"
    /\ UNCHANGED <<numbered_block, numbered_num_id, restOfNumbered>>

NextNumbered == RenderNumbered

SpecNumbered == InitNumbered /\ [][NextNumbered]_vars

----------------------------------------------------------------------------
(* Properties of numbered content *)

\* The text begins with a literal number or letter token
HasLeadingToken(t) ==
    match(NumberPrefixRe, t) \/ match(LetterPrefixRe, t) \/ matchI(RomanPrefixRe, t)

\* The paragraph is numbered content: it has the numbered style and, its
\* leading tokens aside, it is a legal allegation, an affirmation point or
\* an enumerated claim point
IsNumberedContent(p) ==
    /\ p.kind = "text"
    /\ p.style = NumberedStyleMap.numbered
    /\ \A c \in {StripLeadingTokens(p.source)} :
          is_numbered_point_content(c) \/ looks_like_numbered_claim_heading(c)

\* A literal token of the source is no longer in the paragraph
TokenStripped(p) == p.kind = "text" /\ HasLeadingToken(p.source) /\ ~HasLeadingToken(p.text)

\* C25: every paragraph rendered as numbered content carries the list-
\* numbering reference and has no leading literal number or letter token; no
\* paragraph has both a literal token and list numbering, and none has its
\* literal token stripped without list numbering.
C25_NumberOnce ==
    pc = "numbered_rendered" =>
        \A k \in DOMAIN numbered_doc : \A p \in {numbered_doc[k]} :
            /\ IsNumberedContent(p) => (p.num_pr /\ ~HasLeadingToken(p.text))
            /\ ~(p.num_pr /\ HasLeadingToken(p.text))
            /\ TokenStripped(p) => p.num_pr

\* No paragraph has both a literal token and list numbering
C25_NeverBoth ==
    pc = "numbered_rendered" =>
        \A k \in DOMAIN numbered_doc : ~(numbered_doc[k].num_pr /\ HasLeadingToken(numbered_doc[k].text))

\* With a numbering reference given, one-line numbered content whose text
\* has no literal token carries the reference
C25_NumberedWhenGiven ==
    (pc = "numbered_rendered" /\ numbered_num_id # None /\ ~Contains(numbered_block[2], <<"\n">>)) =>
        \A k \in DOMAIN numbered_doc :
            (IsNumberedContent(numbered_doc[k]) /\ ~HasLeadingToken(numbered_doc[k].text)) => numbered_doc[k].num_pr

\* The enumerated claim point loses its literal number and gets no list
\* numbering when no numbering reference is passed
C25_StrippedUnnumbered ==
    /\ pc = "numbered_rendered"
    /\ numbered_num_id = None
    /\ numbered_block[2] = <<"2", ")", " ", "T", "h", "e", " ", "n", "a", "t", "u", "r", "e", " ", "o", "f", " ", "t", "h", "e", " ", "c", "l", "a", "i", "m", ":">>
    /\ Len(numbered_doc) = 1
    /\ numbered_doc[1].text = <<"T", "h", "e", " ", "n", "a", "t", "u", "r", "e", " ", "o", "f", " ", "t", "h", "e", " ", "c", "l", "a", "i", "m", ":">>
    /\ numbered_doc[1].style = NumberedStyleMap.numbered
    /\ ~numbered_doc[1].num_pr

\* With a numbering reference, the second paragraph of a split block loses
\* its literal number and gets no list numbering
C25_StrippedUnnumberedInSplit ==
    /\ pc = "numbered_rendered"
    /\ numbered_num_id # None
    /\ Len(numbered_doc) = 2
    /\ numbered_doc[1].num_pr
    /\ numbered_doc[2].source = <<"2", ".", " ", "T", "h", "e", " ", "l", "e", "a", "s", "e", " ", "w", "a", "s", " ", "s", "i", "g", "n", "e", "d", " ", "i", "n", " ", "M", "a", "y", ".">>
    /\ numbered_doc[2].text = <<"T", "h", "e", " ", "l", "e", "a", "s", "e", " ", "w", "a", "s", " ", "s", "i", "g", "n", "e", "d", " ", "i", "n", " ", "M", "a", "y", ".">>
    /\ ~numbered_doc[2].num_pr

\* With a numbering reference, the allegation that comes with a literal
\* number keeps it in the numbered style and gets no list numbering
C25_LiteralKept ==
    /\ pc = "numbered_rendered"
    /\ numbered_num_id # None
    /\ numbered_block[2] = <<"1", ".", " ", "T", "h", "a", "t", " ", "o", "n", " ", "J", "u", "n", "e", " ", "1", ",", " ", "2", "0", "2", "3", ",", " ", "t", "h", "e", " ", "d", "e", "f", "e", "n", "d", "a", "n", "t", " ", "w", "a", "s", " ", "n", "e", "g", "l", "i", "g", "e", "n", "t", ".">>
    /\ Len(numbered_doc) = 1
    /\ numbered_doc[1].text = numbered_block[2]
    /\ numbered_doc[1].style = NumberedStyleMap.numbered
    /\ ~numbered_doc[1].num_pr

----------------------------------------------------------------------------
(* Specification of the slot-fill path: one call of inject_blocks on the   *)
(* cleared document with as many blocks as the template has slots, and the *)
(* removal of trailing noise that its callers apply to the result          *)

\* A rule and an underscore run as sample texts of a slot
RuleText == <<"-", "-", "-", "-", "-", "-", "-", "-", "-", "-", "-", "-", "-", "-", "-", "-", "-", "-", "-", "-", "-", "-", "-", "X">>
UnderscoreText == <<"_", "_", "_", "_", "_", "_", "_", "_", "_", "_", "_", "_", "_", "_", "_", "_", "_", "_", "_", "_">>
VerificationHeading == <<"A", "T", "T", "O", "R", "N", "E", "Y", "'", "S", " ", "V", "E", "R", "I", "F", "I", "C", "A", "T", "I", "O", "N">>
BodyText == <<"T", "h", "e", " ", "p", "r", "e", "m", "i", "s", "e", "s", " ", "w", "e", "r", "e", " ", "u", "n", "s", "a", "f", "e", ".">>
\* An item of a list written with a dash
DashItem == <<"-", " ", "S", "e", "r", "v", "e", "d", " ", "b", "y", " ", "m", "a", "i", "l", ".">>

\* A slot and the block mapped to it: map_draft_to_template gives a line,
\* signature_line or section_underline slot a block of that type, with an
\* empty text for a section_underline; the slot has a sample text or none
FilledSlots ==
    { f \in [ block_kind : BlockKinds, page_break_before : BOOLEAN,
              template_text : {<<>>, RuleText, UnderscoreText},
              slot_text : {<<>>, BodyText, VerificationHeading, DashItem} ] :
        /\ f.block_kind \in {"paragraph", "section_underline"} => f.template_text = <<>>
        /\ f.block_kind = "line" => f.template_text # UnderscoreText
        /\ f.block_kind = "signature_line" => f.template_text # RuleText
        /\ f.block_kind = "section_underline" => f.slot_text = <<>>
        /\ f.block_kind \in {"line", "signature_line"} => f.slot_text \in {<<>>, BodyText} }

SlotOf(f) ==
    [ style |-> "Normal", section_type |-> "body", block_kind |-> f.block_kind,
      page_break_before |-> f.page_break_before, template_text |-> f.template_text ]

BlockOf(f) == << IF f.block_kind = "paragraph" THEN "Normal" ELSE f.block_kind, f.slot_text >>

InitSlotFill ==
    /\ \E fs \in SeqsUpTo(FilledSlots, MaxSlots) :
          /\ fs # <<>>
          /\ template_structure = [i \in DOMAIN fs |-> SlotOf(fs[i])]
          /\ blocks = [i \in DOMAIN fs |-> BlockOf(fs[i])]
    /\ use_table = FALSE
    /\ doc = <<>>
    /\ block_idx = 0
    /\ seen = {}
    /\ validation = Idle
    /\ pc = "inject"
    /\ OnlyRenderer

NextSlotFill == InjectSlot \/ InjectReturn \/ RemoveTrailing

SpecSlotFill == InitSlotFill /\ [][NextSlotFill]_vars

----------------------------------------------------------------------------
(* Specification of the fallback path for blocks with a verification       *)
(* heading among them                                                      *)

VerificationBlocks ==
    { <<"heading", VerificationHeading>>, <<"paragraph", BodyText>>,
      <<"paragraph", BodyStartParagraph>>, <<"heading", CourtHeading>> }

InitPageBreaks ==
    /\ template_structure = <<>>
    /\ blocks \in SeqsUpTo(VerificationBlocks, MaxInjected)
    /\ use_table \in BOOLEAN
    /\ doc = <<>>
    /\ block_idx = 0
    /\ seen = {}
    /\ validation = Idle
    /\ pc = "inject"
    /\ OnlyRenderer

SpecPageBreaks == InitPageBreaks /\ [][NextFallback]_vars

----------------------------------------------------------------------------
(* Properties of the page breaks *)

\* The paragraph that doc.add_page_break() adds
IsPageBreak(para) == para = [text |-> <<>>, border |-> FALSE]

\* C26: a page break stands immediately before every block whose text is an
\* attorney verification heading, wherever the block occurs in the document,
\* the first rendered block included.
C26_BreakBeforeVerification ==
    pc = "injected" =>
        \A i \in DOMAIN doc :
            looks_like_attorney_verification_heading(doc[i].text) => (i > 1 /\ IsPageBreak(doc[i - 1]))

\* The heading rendered by the loop over the blocks with a paragraph before
\* it has the page break before it
C26_BreakAfterFirstParagraph ==
    pc = "injected" =>
        \A i \in DOMAIN doc :
            (i > 1 /\ ~IsCell(doc[i]) /\ looks_like_attorney_verification_heading(doc[i].text)) =>
                IsPageBreak(doc[i - 1])

\* The heading is the first rendered block and no page break is before it
C26_FirstBlockNoBreak ==
    /\ pc = "injected"
    /\ blocks = << <<"heading", VerificationHeading>>, <<"paragraph", BodyText>> >>
    /\ doc = << [text |-> VerificationHeading, border |-> FALSE], [text |-> BodyText, border |-> FALSE] >>

\* The heading after a paragraph has a page break before it
C26_LaterBlockBreak ==
    /\ pc = "injected"
    /\ blocks = << <<"paragraph", BodyText>>, <<"heading", VerificationHeading>> >>
    /\ Len(doc) = 3
    /\ IsPageBreak(doc[2])
    /\ doc[3].text = VerificationHeading

\* In the slot-fill path the step for a slot with page_break_before set, or
\* with a verification heading as its text, begins by adding a page break
C26_SlotPageBreak ==
    [][ (pc = "inject" /\ block_idx' = block_idx + 1) =>
          \A spec \in {template_structure[block_idx + 1]} :
              (spec.page_break_before \/ looks_like_attorney_verification_heading(strip(blocks[block_idx + 1][2]))) =>
                  (Len(doc') > Len(doc) /\ IsPageBreak(doc'[Len(doc) + 1])) ]_vars

----------------------------------------------------------------------------
(* Properties of the trimming of the finished document *)

\* The text is empty or consists of separator and whitespace characters
\* only, a rule's closing X included
NoiseText(raw) ==
    LET t0 == strip(raw)
        t == IF t0 # <<>> /\ t0[Len(t0)] \in {"X", "x"} THEN SubSeq(t0, 1, Len(t0) - 1) ELSE t0
    IN \A i \in DOMAIN t : t[i] \in WhiteSpace \cup {"-", "_", ".", "=", NBSP}

\* The two trimming steps: the end of inject_blocks and the removal of
\* trailing noise
TrimmingStep == pc \in {"inject", "remove_trailing"} /\ pc' # pc

\* The paragraphs that a trimming step removes
Removed == { i \in DOMAIN doc : i > Len(doc') }

\* C27: the trimming removes only trailing paragraphs that are empty or
\* consist solely of separator and whitespace characters, keeps a paragraph
\* with a bottom border, and leaves a document that is empty or whose last
\* paragraph is not such noise.
C27_TrimsOnlyNoise ==
    [][ TrimmingStep =>
          /\ Len(doc') <= Len(doc)
          /\ doc' = SubSeq(doc, 1, Len(doc'))
          /\ \A i \in Removed : ~doc[i].border /\ NoiseText(doc[i].text)
          /\ pc' = "validate" =>
                (doc' = <<>> \/ doc'[Len(doc')].border \/ ~NoiseText(doc'[Len(doc')].text)) ]_vars

\* The trimming removes paragraphs from the end only and none with a bottom
\* border
C27_BorderKept ==
    [][ TrimmingStep =>
          /\ Len(doc') <= Len(doc)
          /\ doc' = SubSeq(doc, 1, Len(doc'))
          /\ \A i \in Removed : ~doc[i].border ]_vars

\* After the trimming the document is empty or ends in a paragraph that is
\* not noise
C27_LastNotNoise ==
    pc = "validate" =>
        (doc = <<>> \/ doc[Len(doc)].border \/ ~NoiseText(doc[Len(doc)].text))

\* The removal of trailing noise removes noise only
C27_NoiseStepRemovesNoise ==
    [][ (pc = "remove_trailing" /\ pc' = "validate") =>
          \A i \in Removed : NoiseText(doc[i].text) ]_vars

\* A dash item rendered as the last paragraph is removed
C27_DashItemRemoved ==
    /\ pc = "validate"
    /\ blocks = << <<"Normal", BodyText>>, <<"Normal", DashItem>> >>
    /\ doc = << [text |-> BodyText, border |-> FALSE] >>

\* A trailing page break is removed as an empty paragraph
C27_TrailingBreakRemoved ==
    /\ pc = "validate"
    /\ Len(blocks) = 2
    /\ blocks[1] = <<"Normal", BodyText>>
    /\ template_structure[2].page_break_before
    /\ template_structure[2].block_kind = "signature_line"
    /\ doc = << [text |-> BodyText, border |-> FALSE] >>

----------------------------------------------------------------------------
(* Properties of the structural slots in the slot-fill path *)

StructuralKinds == {"line", "signature_line", "section_underline"}

\* The step of the slot-fill loop for a slot of a structural kind
StructuralSlotStep ==
    /\ pc = "inject"
    /\ block_idx' = block_idx + 1
    /\ template_structure[block_idx + 1].block_kind \in StructuralKinds

\* The paragraphs that the step adds, the page break before the slot apart
AddedBySlot ==
    { i \in DOMAIN doc' : i > Len(doc) /\ ~(i = Len(doc) + 1 /\ IsPageBreak(doc'[i])) }

\* A rule, an underscore run or a paragraph with a bottom border and no
\* visible text
IsStructuralParagraph(para) ==
    \/ para.border /\ para.text \in {<<>>, <<NBSP>>}
    \/ ~para.border /\ para.text # <<>> /\ NoiseText(para.text)

\* C28: in the slot-fill path every slot of kind line, signature_line or
\* section_underline produces exactly one structural paragraph, even when
\* the text assigned to the slot is empty.
C28_OneStructuralParagraph ==
    [][ StructuralSlotStep =>
          /\ Cardinality(AddedBySlot) = 1
          /\ \A i \in AddedBySlot : IsStructuralParagraph(doc'[i]) ]_vars

\* A section_underline slot, and a line slot with no text assigned to it,
\* produce exactly one structural paragraph; no structural slot produces
\* more than one paragraph
C28_UnderlineAndEmptyLine ==
    [][ StructuralSlotStep =>
          /\ Cardinality(AddedBySlot) <= 1
          /\ \A i \in AddedBySlot : IsStructuralParagraph(doc'[i])
          /\ ( \/ template_structure[block_idx + 1].block_kind = "section_underline"
               \/ /\ template_structure[block_idx + 1].block_kind = "line"
                  /\ strip(blocks[block_idx + 1][2]) = <<>> )
             => Cardinality(AddedBySlot) = 1 ]_vars

\* A signature_line, or a line with text assigned to it, produces a
\* paragraph exactly when the slot has a sample text
C28_SampleTextDecides ==
    [][ ( /\ StructuralSlotStep
          /\ \/ template_structure[block_idx + 1].block_kind = "signature_line"
             \/ /\ template_structure[block_idx + 1].block_kind = "line"
                /\ strip(blocks[block_idx + 1][2]) # <<>> )
        => (Cardinality(AddedBySlot) = 1 <=> strip(template_structure[block_idx + 1].template_text) # <<>>) ]_vars

\* A signature_line slot without sample text has produced nothing
C28_SignatureLineMissing ==
    /\ pc = "remove_trailing"
    /\ Len(template_structure) = 2
    /\ template_structure[1].block_kind = "paragraph"
    /\ template_structure[2].block_kind = "signature_line"
    /\ ~template_structure[2].page_break_before
    /\ blocks = << <<"Normal", BodyText>>, <<"signature_line", <<>> >> >>
    /\ doc = << [text |-> BodyText, border |-> FALSE] >>

\* A section_underline slot has produced its bordered paragraph
C28_UnderlineRendered ==
    /\ pc = "remove_trailing"
    /\ Len(template_structure) = 2
    /\ template_structure[2].block_kind = "section_underline"
    /\ doc = << [text |-> BodyText, border |-> FALSE], [text |-> <<>>, border |-> TRUE] >>

----------------------------------------------------------------------------
(* Specification of the choice of the renderer by the entry points of the *)
(* backend that render a list of blocks against a template                *)

MaxRenderBlocks == 3
MaxTemplateParagraphs == 3

RenderEntryPoints ==
    { "process_document", "process_document_section_by_section",
      "process_document_from_blocks", "process_document_structural" }

\* extract_paragraph_format_sources(doc): one captured format for each
\* paragraph of the template
extract_paragraph_format_sources(n_paragraphs) == [i \in 1..n_paragraphs |-> "format"]

\* "if paragraph_sources: inject_blocks_using_paragraph_sources(...) else:
\* inject_blocks(...)" of process_document and of
\* process_document_section_by_section; process_document_from_blocks and
\* build_document_from_structural_output call
\* inject_blocks_using_paragraph_sources in every case
render_mode_of(entry, n_blocks, paragraph_sources) ==
    IF entry \in {"process_document", "process_document_section_by_section"}
    THEN IF paragraph_sources # <<>> THEN "paragraph_clone" ELSE "style_table"
    ELSE "paragraph_clone"

InitMode ==
    /\ render_request \in [ entry : RenderEntryPoints,
                            n_blocks : 0..MaxRenderBlocks,
                            n_paragraphs : 0..MaxTemplateParagraphs ]
    /\ render_mode = Idle
    /\ pc = "render"
    /\ OnlyMode

ChooseRenderer ==
    /\ pc = "render"
    /\ render_mode' = render_mode_of(render_request.entry, render_request.n_blocks,
                                     extract_paragraph_format_sources(render_request.n_paragraphs))
    /\ pc' = "rendered"
    /\ UNCHANGED <<render_request, restOfMode>>

NextMode == ChooseRenderer

SpecMode == InitMode /\ [][NextMode]_vars

\* C29: the backend renders in paragraph-clone mode exactly when the number
\* of blocks equals the number of captured template paragraphs, and in
\* style-table mode in every other case.
C29_CloneExactlyWhenCountsMatch ==
    pc = "rendered" =>
        /\ render_mode \in {"paragraph_clone", "style_table"}
        /\ render_mode = "paragraph_clone" <=> render_request.n_blocks = render_request.n_paragraphs

\* What decides: process_document and process_document_section_by_section
\* render in paragraph-clone mode exactly when the template has a paragraph,
\* the other two entry points always
C29_CloneWhenSourcesCaptured ==
    pc = "rendered" =>
        /\ render_mode \in {"paragraph_clone", "style_table"}
        /\ render_mode = "paragraph_clone" <=>
              \/ render_request.n_paragraphs > 0
              \/ render_request.entry \in {"process_document_from_blocks", "process_document_structural"}

\* Three blocks against a template of two paragraphs are rendered in
\* paragraph-clone mode
C29_CloneWithOtherCount ==
    /\ pc = "rendered"
    /\ render_request = [entry |-> "process_document", n_blocks |-> 3, n_paragraphs |-> 2]
    /\ render_mode = "paragraph_clone"

\* Style-table mode is taken for a template without paragraphs
C29_StyleTableWithoutSources ==
    /\ pc = "rendered"
    /\ render_request = [entry |-> "process_document", n_blocks |-> 2, n_paragraphs |-> 0]
    /\ render_mode = "style_table"

----------------------------------------------------------------------------
(* Specification of the draft-driven parser: parse_draft_into_blocks on a  *)
(* draft                                                                   *)

MaxDraftParagraphs == 2

SECTION_UNDERLINE_SENTINEL == <<"[", "S", "E", "C", "T", "I", "O", "N", "_", "U", "N", "D", "E", "R", "L", "I", "N", "E", "]">>

CountOf(t, c) == Cardinality({ i \in DOMAIN t : t[i] = c })

\* _is_signature_line of draft_driven_formatter.py
is_signature_line(raw) ==
    IF raw = <<>> \/ Len(raw) > 80 THEN FALSE
    ELSE LET s == strip(raw)
         IN Contains(s, <<"_", "_", "_", "_">>) \/ (Len(s) < 30 /\ CountOf(s, "_") >= 3)

\* _is_separator_line of draft_driven_formatter.py; the character set of
\* the source, " \t\-_.=" followed by the non-breaking space in a plain string,
\* holds the backslash too
draft_is_separator_line(raw) ==
    LET s == strip(raw)
    IN IF Len(s) < 10 THEN FALSE
       ELSE IF s[Len(s)] \notin {"X", "x"} THEN FALSE
       ELSE LET rest == strip(SubSeq(s, 1, Len(s) - 1))
            IN \A i \in DOMAIN rest : rest[i] \in {" ", "\t", "\\", "-", "_", ".", "=", NBSP}

\* _is_numbered_item
is_numbered_item(raw) ==
    LET s == strip(raw)
    IN \/ match(NumberTokenRe, s)
       \/ match(LetterTokenRe, s) /\ Len(s) > 4
       \/ match(Cat(<<Plus(Ch({"i", "v", "x", "I", "V", "X"})), Ch({".", ")"}), Plus(wspace)>>), s) /\ Len(s) > 4
       \/ match(Cat(<<Lit(<<"(">>), Plus(digit), Lit(<<")">>), Plus(wspace)>>), s)

\* _is_section_heading: at least 80% of the letters are capitals, or a
\* known phrase
is_section_heading(raw) ==
    LET s == strip(raw)
        capitals == Cardinality({ i \in DOMAIN s : s[i] \in Upper })
        letters == Cardinality({ i \in DOMAIN s : isalpha(s[i]) })
    IN IF Len(s) > 100 THEN FALSE
       ELSE IF Len(s) > 2 /\ 10 * capitals >= 8 * (IF letters > 1 THEN letters ELSE 1) THEN TRUE
       ELSE IF Contains(lower(s), <<"a", "s", " ", "a", "n", "d", " ", "f", "o", "r", " ", "a">>) /\ Contains(lower(s), <<"c", "a", "u", "s", "e", " ", "o", "f", " ", "a", "c", "t", "i", "o", "n">>) THEN TRUE
       ELSE Contains(lower(s), <<"j", "u", "r", "y", " ", "t", "r", "i", "a", "l", " ", "d", "e", "m", "a", "n", "d", "e", "d">>)

\* _is_document_title
is_document_title(raw) ==
    LET s == strip(raw)
    IN IF Len(s) > 60 THEN FALSE
       ELSE IF lower(s) \in { <<"s", "u", "m", "m", "o", "n", "s">>, <<"c", "o", "m", "p", "l", "a", "i", "n", "t">>, <<"v", "e", "r", "i", "f", "i", "e", "d", " ", "c", "o", "m", "p", "l", "a", "i", "n", "t">>, <<"n", "o", "t", "i", "c", "e", " ", "o", "f", " ", "m", "o", "t", "i", "o", "n">>, <<"a", "f", "f", "i", "d", "a", "v", "i", "t">> } THEN TRUE
       ELSE Len(s) <= 30 /\ isupper(s)

\* The block of one paragraph: the chain of tests of parse_draft_into_blocks
DraftBlock(para) ==
    IF para = SECTION_UNDERLINE_SENTINEL THEN <<"section_underline", <<>> >>
    ELSE IF is_signature_line(para) THEN <<"signature_line", para>>
    ELSE IF draft_is_separator_line(para) THEN <<"line", para>>
    ELSE IF is_numbered_item(para) THEN <<"numbered", para>>
    ELSE IF is_section_heading(para) THEN <<"section_header", para>>
    ELSE IF is_document_title(para) THEN <<"heading", para>>
    ELSE <<"paragraph", para>>

\* t.split("\n\n")
RECURSIVE SplitBlank(_)
SplitBlank(t) ==
    IF Contains(t, <<"\n", "\n">>)
    THEN LET k == CHOOSE i \in 1..(Len(t) - 1) :
                     /\ SubSeq(t, i, i + 1) = <<"\n", "\n">>
                     /\ \A j \in 1..(i - 1) : SubSeq(t, j, j + 1) # <<"\n", "\n">>
         IN <<SubSeq(t, 1, k - 1)>> \o SplitBlank(SubSeq(t, k + 2, Len(t)))
    ELSE <<t>>

parse_draft_into_blocks(raw) ==
    IF raw = <<>> \/ strip(raw) = <<>> THEN <<>>
    ELSE LET paras == SplitBlank(strip(raw))
             stripped == [i \in DOMAIN paras |-> strip(paras[i])]
             kept == SelectSeq(stripped, LAMBDA para : para # <<>>)
         IN [i \in DOMAIN kept |-> DraftBlock(kept[i])]

\* Paragraphs of a draft
DraftParagraphs ==
    { SECTION_UNDERLINE_SENTINEL,
      <<"_", "_", "_", "_", "_", "_", "_", "_", "_", "_", "_", "_", "_", "_", "_", "_", "_", "_", "_", "_">>,
      <<"-", "-", "-", "-", "-", "-", "-", "-", "-", "-", "-", "-", "-", "-", "-", "-", "-", "-", "-", "-", "X">>,
      <<"_", "_", "_", "_", "_", "_", "_", "_", "_", "_", "_", "_", "_", "_", "_", "_", "_", "_", "_", "_", "X">>,
      <<".", " ", ".", " ", ".", " ", ".", " ", ".", " ", ".", " ", ".", " ", ".", " ", ".", " ", ".", " ", "X">>,
      <<"1", ".", " ", "T", "h", "e", " ", "l", "e", "a", "s", "e", " ", "w", "a", "s", " ", "s", "i", "g", "n", "e", "d", " ", "i", "n", " ", "M", "a", "y", ".">>,
      <<"V", "E", "R", "I", "F", "I", "E", "D", " ", "C", "O", "M", "P", "L", "A", "I", "N", "T">>,
      <<"S", "u", "m", "m", "o", "n", "s">>,
      <<"T", "h", "e", " ", "p", "r", "e", "m", "i", "s", "e", "s", " ", "w", "e", "r", "e", " ", "u", "n", "s", "a", "f", "e", ".">>,
      <<"D", "a", "t", "e", "d", ":", " ", "M", "a", "y", " ", "1", "\n", "N", "e", "w", " ", "Y", "o", "r", "k">>,
      <<"\n">> }

\* The breaks between the paragraphs of a draft: one blank line or two
DraftBreaks == { <<"\n", "\n">>, <<"\n", "\n", "\n">> }

RECURSIVE JoinDraft(_, _)
JoinDraft(paras, breaks) ==
    IF paras = <<>> THEN <<>>
    ELSE IF Len(paras) = 1 THEN paras[1]
    ELSE paras[1] \o breaks[1] \o JoinDraft(Tail(paras), Tail(breaks))

WholeDrafts ==
    { JoinDraft(paras, breaks) :
        paras \in SeqsUpTo(DraftParagraphs, MaxDraftParagraphs),
        breaks \in [1..(MaxDraftParagraphs - 1) -> DraftBreaks] }

InitDraftParser ==
    /\ draft_text \in WholeDrafts
    /\ draft_parsed = Idle
    /\ pc = "parse_draft"
    /\ OnlyDraftParser

ParseDraft ==
    /\ pc = "parse_draft"
    /\ draft_parsed' = parse_draft_into_blocks(draft_text)
    /\ pc' = "draft_parsed"
    /\ UNCHANGED <<draft_text, restOfDraftParser>>

NextDraftParser == ParseDraft

SpecDraftParser == InitDraftParser /\ [][NextDraftParser]_vars

----------------------------------------------------------------------------
(* Properties of the draft-driven parser *)

\* The text without its whitespace
WithoutWhiteSpace(t) == SelectSeq(t, LAMBDA c : c \notin WhiteSpace)

\* The number of paragraphs of a draft: one more than the number of runs of
\* two or more line breaks inside the stripped draft
ParagraphCount(raw) ==
    LET t == strip(raw)
    IN IF t = <<>> THEN 0
       ELSE 1 + Cardinality({ i \in 1..(Len(t) - 1) :
                                /\ t[i] = "\n" /\ t[i + 1] = "\n"
                                /\ (i = 1 \/ t[i - 1] # "\n") })

\* The text that a block stands for in the draft
BlockSource(block) == IF block[1] = "section_underline" THEN SECTION_UNDERLINE_SENTINEL ELSE block[2]

RECURSIVE ConcatSources(_)
ConcatSources(bs) == IF bs = <<>> THEN <<>> ELSE BlockSource(bs[1]) \o ConcatSources(Tail(bs))

\* The rules in their order, each with the role it gives
RuleOrder(para) ==
    << <<"section_underline", para = SECTION_UNDERLINE_SENTINEL>>,
       <<"signature_line", is_signature_line(para)>>,
       <<"line", draft_is_separator_line(para)>>,
       <<"numbered", is_numbered_item(para)>>,
       <<"section_header", is_section_heading(para)>>,
       <<"heading", is_document_title(para)>>,
       <<"paragraph", TRUE>> >>

FirstMatchingRole(para) ==
    LET rules == RuleOrder(para)
        k == CHOOSE i \in DOMAIN rules : rules[i][2] /\ \A j \in 1..(i - 1) : ~rules[j][2]
    IN rules[k][1]

\* A run of at least ten dashes, underscores or dots, closed by an X
IsRunEndingInX(t) ==
    /\ Len(t) > 10
    /\ t[Len(t)] \in {"X", "x"}
    /\ \A i \in 1..(Len(t) - 1) : t[i] \in {"-", "_", "."}

\* One block for each paragraph of the draft, in the order of the draft
OneBlockPerParagraph ==
    /\ Len(draft_parsed) = ParagraphCount(draft_text)
    /\ WithoutWhiteSpace(ConcatSources(draft_parsed)) = WithoutWhiteSpace(draft_text)
    /\ \A i \in DOMAIN draft_parsed :
          /\ BlockSource(draft_parsed[i]) # <<>>
          /\ BlockSource(draft_parsed[i]) = strip(BlockSource(draft_parsed[i]))
          /\ ~Contains(draft_parsed[i][2], <<"\n", "\n">>)

\* The role of each block is that of the first rule that its paragraph
\* matches
RoleByFirstRule ==
    \A i \in DOMAIN draft_parsed : draft_parsed[i][1] = FirstMatchingRole(BlockSource(draft_parsed[i]))

\* C30: parse_draft_into_blocks yields one block for each non-blank
\* paragraph of the draft, in draft order, with the role of the first
\* matching rule in the fixed order, and gives a run of dashes, underscores
\* or dots that ends in X the role line.
C30_DraftBlocks ==
    pc = "draft_parsed" =>
        /\ OneBlockPerParagraph
        /\ RoleByFirstRule
        /\ \A i \in DOMAIN draft_parsed :
              IsRunEndingInX(draft_parsed[i][2]) => draft_parsed[i][1] = "line"

\* The part that holds: one block for each paragraph, in order, with the
\* role of the first matching rule
C30_OneBlockPerParagraphByFirstRule ==
    pc = "draft_parsed" => (OneBlockPerParagraph /\ RoleByFirstRule)

\* A run of dashes or dots that ends in X has the role line
C30_DashRunIsLine ==
    pc = "draft_parsed" =>
        \A i \in DOMAIN draft_parsed :
            (IsRunEndingInX(draft_parsed[i][2]) /\ ~Contains(draft_parsed[i][2], <<"_", "_", "_", "_">>))
                => draft_parsed[i][1] = "line"

\* A run of underscores that ends in X has the role signature_line
C30_UnderscoreRunIsSignature ==
    /\ pc = "draft_parsed"
    /\ draft_text = <<"T", "h", "e", " ", "p", "r", "e", "m", "i", "s", "e", "s", " ", "w", "e", "r", "e", " ", "u", "n", "s", "a", "f", "e", ".">> \o <<"\n", "\n">> \o <<"_", "_", "_", "_", "_", "_", "_", "_", "_", "_", "_", "_", "_", "_", "_", "_", "_", "_", "_", "_", "X">>
    /\ draft_parsed = << <<"paragraph", <<"T", "h", "e", " ", "p", "r", "e", "m", "i", "s", "e", "s", " ", "w", "e", "r", "e", " ", "u", "n", "s", "a", "f", "e", ".">>>>, <<"signature_line", <<"_", "_", "_", "_", "_", "_", "_", "_", "_", "_", "_", "_", "_", "_", "_", "_", "_", "_", "_", "_", "X">>>> >>

\* A draft of two paragraphs with a run of dashes: two blocks
C30_TwoBlocks ==
    /\ pc = "draft_parsed"
    /\ draft_text = <<"V", "E", "R", "I", "F", "I", "E", "D", " ", "C", "O", "M", "P", "L", "A", "I", "N", "T">> \o <<"\n", "\n", "\n">> \o <<"-", "-", "-", "-", "-", "-", "-", "-", "-", "-", "-", "-", "-", "-", "-", "-", "-", "-", "-", "-", "X">>
    /\ draft_parsed = << <<"section_header", <<"V", "E", "R", "I", "F", "I", "E", "D", " ", "C", "O", "M", "P", "L", "A", "I", "N", "T">>>>, <<"line", <<"-", "-", "-", "-", "-", "-", "-", "-", "-", "-", "-", "-", "-", "-", "-", "-", "-", "-", "-", "-", "X">>>> >>

====
